---- MODULE Spec2Model ----
(***************************************************************************)
(* Checkout-to-order reconciliation pipeline of the marketplace storefront *)
(*                                                                         *)
(*   - the Stripe webhook (supabase/functions/stripe-webhook/index.ts),    *)
(*     which materialises orders and order_items;                          *)
(*   - the checkout success view (SuccessInner), which polls for the order *)
(*     of a session;                                                       *)
(*   - the buyer order list (OrdersPage.loadOrders), guarded by loadSeq.   *)
(*                                                                         *)
(* Every await of the source is a point where other activity interleaves,  *)
(* so every action below runs from one await to the next.                  *)
(***************************************************************************)
EXTENDS Integers, Sequences, FiniteSets, TLC

\* ------------------------------------------------------------------ bounds
MaxDeliveries == 2      \* webhook invocations per behaviour
MaxSessions == 2        \* checkout sessions known to the payment provider
MaxLines == 2           \* most line items in one session
MaxEffects == 2         \* runs of the success view's effect (mount, sid changes)
MaxLoads == 2           \* calls of loadOrders on the buyer order list
MaxCartOps == 3         \* cart operations (addItem, removeItem, clear) per behaviour
MaxNameLen == 6         \* characters of a full name

NULL == "null"
NoSid == 0             \* sp.get('sid') is null
NoOrder == [id |-> 0]  \* the null of an order row

Sessions == 1..MaxSessions
Deliveries == 1..MaxDeliveries
Runs == 1..MaxEffects
Loads == 1..MaxLoads
Users == {"u1", "u2"}

\* --------------------------------------------------------------- variables
VARIABLES
    orders,         \* table orders: set of rows
    order_items,    \* table order_items: sequence of rows in insertion order
    nextOrderId,    \* the id the store gives to the next inserted order
    inv,            \* webhook invocations: Deliveries -> record
    success,        \* SuccessInner state: loading, order, items, statusMsg, error
    sid,            \* SuccessInner: the sid search parameter
    runs,           \* SuccessInner: the load() of each effect run, Runs -> record
    nRuns,          \* SuccessInner: effect runs so far; run nRuns is the current one
    alive,          \* SuccessInner is mounted
    lastWriter,     \* the run whose load() called a state setter last
    page,           \* which OrdersPage is mounted: "none" | "orders" | "signup"
    ordersPage,     \* OrdersPage state: orders, loading, error, userId
    loadSeq,        \* OrdersPage: loadSeq.current
    loads,          \* OrdersPage: the calls of loadOrders, Loads -> record
    authUser,       \* the user of the auth session (NULL when signed out)
    uiWriter,       \* the seq of the loadOrders call that called a setter last
    salesMounted,   \* SellerSalesPage: "no" | "yes" | "gone" (the effect's `mounted`)
    salesPage,      \* SellerSalesPage state: items, loading, error, userId
    salesSeq,       \* SellerSalesPage: loadSeq.current
    sales,          \* SellerSalesPage: the calls of load, Loads -> record
    salesWriter,    \* the seq of the load call that called a setter last
    co,             \* the checkout request: route handler and edge function
    cartItems,      \* CartProvider state `items`: sequence of cart lines
    storage,        \* localStorage 'cart:v1' (parsed)
    cartPc,         \* "ready" | "mounting" (a page load rendered, effects pending) |
                    \* "crashed" (a render threw)
    landed,         \* the success view the buyer was redirected to ("none": not yet)
    cartOp,         \* the last cart operation or hydration (read by the properties only)
    cartOps,        \* number of cart operations so far
    storageFault,   \* what reading localStorage 'cart:v1' meets: "none" |
                    \* "getItemThrows" | "parseThrows" | "notArray"
    hydrated,       \* storageFault at the last hydration ("never": none yet)
    fullName,       \* the name splitName was called with last
    splitResult     \* what it returned

storeVars == <<orders, order_items, nextOrderId>>
successVars == <<success, sid, runs, nRuns, alive, lastWriter>>
listVars == <<page, ordersPage, loadSeq, loads, authUser, uiWriter>>
salesVars == <<salesMounted, salesPage, salesSeq, sales, salesWriter>>
nameVars == <<fullName, splitResult>>
cartVars == <<cartItems, storage, cartPc, landed, cartOp, cartOps, storageFault, hydrated>>
clientVars == <<successVars, listVars, salesVars, co, cartVars, nameVars>>
vars == <<orders, order_items, nextOrderId, inv, success, sid, runs, nRuns, alive,
          lastWriter, page, ordersPage, loadSeq, loads, authUser, uiWriter,
          salesMounted, salesPage, salesSeq, sales, salesWriter, co,
          cartItems, storage, cartPc, landed, cartOp, cartOps, storageFault, hydrated,
          fullName, splitResult>>

\* ------------------------------------------------- payment provider (Stripe)
\* The signing secrets a request may have been signed with; the endpoint's
\* secret is STRIPE_WEBHOOK_SECRET.
STRIPE_WEBHOOK_SECRET == "whsec_endpoint"
Headers == {"none", "whsec_endpoint", "whsec_forged"}
EventTypes == {"checkout.session.completed", "payment_intent.created"}

\* stripe.webhooks.constructEventAsync(body, sig, secret): succeeds iff the
\* signature was made with the endpoint's secret.
constructEventAsync(header) == header = STRIPE_WEBHOOK_SECRET

\* The provider-side session: session s was created by create-checkout-session
\* from the cart Cart(s), which has NumLines(s) lines, line i with quantity i.
NumLines(s) == ((s - 1) % MaxLines) + 1

\* Table products (the catalog), by slug: the seller_id of the product, NULL
\* when no product has the slug or the product has no seller.
Catalog(slug) == IF slug \in {"p1", "p2"} THEN "u2" ELSE NULL

\* A cart line as the checkout page sends it (checkout/page.tsx 44-54).  Of
\* three lines in a row the first carries its seller, the second has a slug
\* only and the third neither.
CartItem(s, i) ==
    [price_cents |-> 1000 * s,
     quantity    |-> i,
     slug        |-> IF i % 3 = 1 THEN "p1" ELSE IF i % 3 = 2 THEN "p2" ELSE NULL,
     seller_id   |-> IF i % 3 = 1 THEN "u2" ELSE NULL]

Cart(s) == [i \in 1..NumLines(s) |-> CartItem(s, i)]

\* JavaScript truthiness of a string-or-null value.
Truthy(x) == x \notin {NULL, ""}

\* ResolveSeller that asks the catalog first and uses the line's own seller_id
\* only for a line without slug.
ResolveSellerCatalogFirst(item, p) ==
    IF Truthy(item.slug) THEN p ELSE item.seller_id

\* create-checkout-session 86-100: the seller of a line; p is the seller_id
\* of the row the products lookup returned (NULL: no row, no seller, or the
\* lookup failed).
ResolveSeller(item, p) ==
    IF ~Truthy(item.seller_id) /\ Truthy(item.slug) THEN p ELSE item.seller_id

\* create-checkout-session 105-121: the line item sent to the provider, with
\* its product metadata; a line without price_cents is sent without
\* unit_amount.
SessionLine(item) ==
    IF "price_cents" \in DOMAIN item
    THEN [quantity    |-> item.quantity,
          unit_amount |-> item.price_cents,
          slug        |-> IF item.slug = NULL THEN "" ELSE item.slug,
          seller_id   |-> IF item.seller_id = NULL THEN "" ELSE item.seller_id]
    ELSE [quantity    |-> item.quantity,
          slug        |-> IF item.slug = NULL THEN "" ELSE item.slug,
          seller_id   |-> IF item.seller_id = NULL THEN "" ELSE item.seller_id]

\* What the products lookup returned when session s was created: the lookup
\* of every second line of three failed.
LookupAtCheckout(s, i) == IF i % 3 = 2 THEN NULL ELSE Catalog(CartItem(s, i).slug)

LineItem(s, i) ==
    SessionLine([CartItem(s, i) EXCEPT
                    !.seller_id = ResolveSeller(CartItem(s, i), LookupAtCheckout(s, i))])

listLineItems(s) == [i \in 1..NumLines(s) |-> LineItem(s, i)]

RECURSIVE SumLines(_, _)
SumLines(s, n) ==
    IF n = 0 THEN 0
    ELSE LineItem(s, n).quantity * LineItem(s, n).unit_amount + SumLines(s, n - 1)

StripeSession(s) ==
    [id           |-> s,
     amount_total |-> SumLines(s, NumLines(s)),
     user_id      |-> IF s % 2 = 1 THEN "u1" ELSE NULL]

\* ------------------------------------------------------------ durable store
OrdersOf(s) == {o \in orders : o.stripe_session_id = s}

\* Uniqueness constraint of orders.stripe_session_id.
UniqueViolation(row) == OrdersOf(row.stripe_session_id) # {}

\* The row the webhook inserts for a session (index.ts 69-89).
OrderRow(session, id) ==
    [id                |-> id,
     stripe_session_id |-> session.id,
     user_id           |-> session.user_id,
     amount_cents      |-> session.amount_total,
     status            |-> "paid"]

\* The row the webhook inserts for a line item (index.ts 102-124).
OrderItemRow(order_id, li) ==
    [order_id     |-> order_id,
     product_slug |-> li.slug,
     qty          |-> li.quantity,
     price_cents  |-> li.unit_amount,
     seller_id    |-> IF Truthy(li.seller_id) THEN li.seller_id ELSE NULL]

ItemsOfOrder(id) == SelectSeq(order_items, LAMBDA r : r.order_id = id)

\* ------------------------------------------------------------ webhook state
\* pc: "idle" (not delivered) | "listLineItems" | "insertOrder" |
\*     "insertItems" | "done".  status: the HTTP status of the response (0 while
\*     none was sent).  The other fields record what the invocation did and
\*     met and are read by the properties only: nOrders/nItems rows inserted,
\*     failed (a step failed for a reason other than the uniqueness constraint),
\*     itemFailed (line items whose insert failed), sawOrder (an order of the
\*     session existed on arrival), alone (no other invocation was running on
\*     arrival), fetched (listLineItems was called).
IdleInv ==
    [pc |-> "idle", header |-> "none", type |-> "none", session |-> 0,
     i |-> 0, order_id |-> 0, status |-> 0,
     nOrders |-> 0, nItems |-> 0, failed |-> FALSE, itemFailed |-> {},
     sawOrder |-> FALSE, alone |-> FALSE, fetched |-> FALSE]

Respond(r, status) == [r EXCEPT !.pc = "done", !.status = status]

\* Receive without the rejection of a signature that does not verify.
ReceiveUnverified(h, header, type, s) ==
    /\ inv[h].pc = "idle"
    /\ \A g \in Deliveries : g < h => inv[g].pc # "idle"
    /\ LET r == [inv[h] EXCEPT !.header = header, !.type = type, !.session = s,
                               !.sawOrder = OrdersOf(s) # {},
                               !.alone = \A g \in Deliveries :
                                            inv[g].pc \in {"idle", "done"}]
       IN  inv' = [inv EXCEPT ![h] =
                 IF header = "none" THEN Respond(r, 400)
                 ELSE IF type # "checkout.session.completed" THEN Respond(r, 200)
                 ELSE [r EXCEPT !.pc = "listLineItems", !.fetched = TRUE]]
    /\ UNCHANGED <<orders, order_items, nextOrderId>>
    /\ UNCHANGED clientVars

\* Receive that handles every verified event as a completed payment.
ReceiveAnyType(h, header, type, s) ==
    /\ inv[h].pc = "idle"
    /\ \A g \in Deliveries : g < h => inv[g].pc # "idle"
    /\ LET r == [inv[h] EXCEPT !.header = header, !.type = type, !.session = s,
                               !.sawOrder = OrdersOf(s) # {},
                               !.alone = \A g \in Deliveries :
                                            inv[g].pc \in {"idle", "done"}]
       IN  inv' = [inv EXCEPT ![h] =
                 IF header = "none" THEN Respond(r, 400)
                 ELSE IF ~constructEventAsync(header) THEN Respond(r, 400)
                 ELSE [r EXCEPT !.pc = "listLineItems", !.fetched = TRUE]]
    /\ UNCHANGED <<orders, order_items, nextOrderId>>
    /\ UNCHANGED clientVars

\* serve(), lines 28-55: the signature check, the event type check and the
\* call of listLineItems (the first await that reaches another party).
Receive(h, header, type, s) ==
    /\ inv[h].pc = "idle"
    /\ \A g \in Deliveries : g < h => inv[g].pc # "idle"
    /\ LET r == [inv[h] EXCEPT !.header = header, !.type = type, !.session = s,
                               !.sawOrder = OrdersOf(s) # {},
                               !.alone = \A g \in Deliveries :
                                            inv[g].pc \in {"idle", "done"}]
       IN  inv' = [inv EXCEPT ![h] =
                 IF header = "none" THEN Respond(r, 400)
                 ELSE IF ~constructEventAsync(header) THEN Respond(r, 400)
                 ELSE IF type # "checkout.session.completed" THEN Respond(r, 200)
                 ELSE [r EXCEPT !.pc = "listLineItems", !.fetched = TRUE]]
    /\ UNCHANGED <<orders, order_items, nextOrderId>>
    /\ UNCHANGED clientVars

\* ListLineItems whose catch block answers 500 instead of 200.
ListLineItemsCatch500(h, ok) ==
    /\ inv[h].pc = "listLineItems"
    /\ inv' = [inv EXCEPT ![h] =
                 IF ok THEN [@ EXCEPT !.pc = "insertOrder"]
                 ELSE Respond([@ EXCEPT !.failed = TRUE], 500)]
    /\ UNCHANGED <<orders, order_items, nextOrderId>>
    /\ UNCHANGED clientVars

\* lines 52-55 and 136-140: listLineItems resolves, or throws into the catch.
ListLineItems(h, ok) ==
    /\ inv[h].pc = "listLineItems"
    /\ inv' = [inv EXCEPT ![h] =
                 IF ok THEN [@ EXCEPT !.pc = "insertOrder"]
                 ELSE Respond([@ EXCEPT !.failed = TRUE], 200)]
    /\ UNCHANGED <<orders, order_items, nextOrderId>>
    /\ UNCHANGED clientVars

\* InsertOrder as an upsert on stripe_session_id: a conflicting insert returns
\* the order the session already has and the handler goes on to the
\* order_items loop.
InsertOrderUpsert(h, dbOk) ==
    /\ inv[h].pc = "insertOrder"
    /\ LET session == StripeSession(inv[h].session)
           row == OrderRow(session, nextOrderId)
           orderErr == ~dbOk \/ UniqueViolation(row)
           existing == OrdersOf(session.id)
       IN  /\ orders' = IF orderErr THEN orders ELSE orders \cup {row}
           /\ nextOrderId' = IF orderErr THEN nextOrderId ELSE nextOrderId + 1
           /\ inv' = [inv EXCEPT ![h] =
                 IF orderErr /\ existing = {}
                 THEN Respond([@ EXCEPT !.failed = ~dbOk], 200)
                 ELSE IF orderErr
                 THEN [@ EXCEPT !.pc = "insertItems", !.i = 1,
                                !.order_id = (CHOOSE o \in existing : TRUE).id]
                 ELSE [@ EXCEPT !.pc = "insertItems", !.i = 1,
                                !.order_id = row.id, !.nOrders = 1]]
    /\ UNCHANGED order_items
    /\ UNCHANGED clientVars

\* InsertOrder that replaces the order of the session when there is one.
InsertOrderReplace(h, dbOk) ==
    /\ inv[h].pc = "insertOrder"
    /\ LET session == StripeSession(inv[h].session)
           row == OrderRow(session, nextOrderId)
       IN  /\ orders' = IF dbOk THEN (orders \ OrdersOf(session.id)) \cup {row} ELSE orders
           /\ nextOrderId' = IF dbOk THEN nextOrderId + 1 ELSE nextOrderId
           /\ inv' = [inv EXCEPT ![h] =
                 IF ~dbOk
                 THEN Respond([@ EXCEPT !.failed = TRUE], 200)
                 ELSE [@ EXCEPT !.pc = "insertItems", !.i = 1,
                                !.order_id = row.id, !.nOrders = 1]]
    /\ UNCHANGED order_items
    /\ UNCHANGED clientVars

\* InsertOrder that answers 500 when the insert is refused.
InsertOrderErrorIs500(h, dbOk) ==
    /\ inv[h].pc = "insertOrder"
    /\ LET session == StripeSession(inv[h].session)
           row == OrderRow(session, nextOrderId)
           orderErr == ~dbOk \/ UniqueViolation(row)
       IN  /\ orders' = IF orderErr THEN orders ELSE orders \cup {row}
           /\ nextOrderId' = IF orderErr THEN nextOrderId ELSE nextOrderId + 1
           /\ inv' = [inv EXCEPT ![h] =
                 IF orderErr
                 THEN Respond([@ EXCEPT !.failed = ~dbOk], 500)
                 ELSE [@ EXCEPT !.pc = "insertItems", !.i = 1,
                                !.order_id = row.id, !.nOrders = 1]]
    /\ UNCHANGED order_items
    /\ UNCHANGED clientVars

\* lines 57-98: insert into orders, select the row back.  dbOk = FALSE is an
\* error of the store other than the uniqueness constraint.  orderErr leads
\* to the early return of lines 93-96.
InsertOrder(h, dbOk) ==
    /\ inv[h].pc = "insertOrder"
    /\ LET session == StripeSession(inv[h].session)
           row == OrderRow(session, nextOrderId)
           orderErr == ~dbOk \/ UniqueViolation(row)
       IN  /\ orders' = IF orderErr THEN orders ELSE orders \cup {row}
           /\ nextOrderId' = IF orderErr THEN nextOrderId ELSE nextOrderId + 1
           /\ inv' = [inv EXCEPT ![h] =
                 IF orderErr
                 THEN Respond([@ EXCEPT !.failed = ~dbOk], 200)
                 ELSE [@ EXCEPT !.pc = "insertItems", !.i = 1,
                                !.order_id = row.id, !.nOrders = 1]]
    /\ UNCHANGED order_items
    /\ UNCHANGED clientVars

\* InsertItem that leaves the loop at the first failed insert.
InsertItemAbortOnError(h, dbOk) ==
    /\ inv[h].pc = "insertItems"
    /\ LET lineItems == listLineItems(inv[h].session)
           i == inv[h].i
           row == OrderItemRow(inv[h].order_id, lineItems[i])
           r == [inv[h] EXCEPT !.i = i + 1,
                    !.nItems = IF dbOk THEN @ + 1 ELSE @,
                    !.itemFailed = IF dbOk THEN @ ELSE @ \cup {i}]
       IN  /\ order_items' = IF dbOk THEN Append(order_items, row) ELSE order_items
           /\ inv' = [inv EXCEPT ![h] =
                        IF i = Len(lineItems) \/ ~dbOk THEN Respond(r, 200) ELSE r]
    /\ UNCHANGED <<orders, nextOrderId>>
    /\ UNCHANGED clientVars

\* InsertItem that stores the seller_id of the metadata as it is.
InsertItemRawSeller(h, dbOk) ==
    /\ inv[h].pc = "insertItems"
    /\ LET lineItems == listLineItems(inv[h].session)
           i == inv[h].i
           row == [OrderItemRow(inv[h].order_id, lineItems[i]) EXCEPT
                      !.seller_id = lineItems[i].seller_id]
           r == [inv[h] EXCEPT !.i = i + 1,
                    !.nItems = IF dbOk THEN @ + 1 ELSE @,
                    !.itemFailed = IF dbOk THEN @ ELSE @ \cup {i}]
       IN  /\ order_items' = IF dbOk THEN Append(order_items, row) ELSE order_items
           /\ inv' = [inv EXCEPT ![h] =
                        IF i = Len(lineItems) THEN Respond(r, 200) ELSE r]
    /\ UNCHANGED <<orders, nextOrderId>>
    /\ UNCHANGED clientVars

\* lines 101-135: one iteration of the order_items loop; after the last line
\* item the handler answers 200.
InsertItem(h, dbOk) ==
    /\ inv[h].pc = "insertItems"
    /\ LET lineItems == listLineItems(inv[h].session)
           i == inv[h].i
           row == OrderItemRow(inv[h].order_id, lineItems[i])
           r == [inv[h] EXCEPT !.i = i + 1,
                    !.nItems = IF dbOk THEN @ + 1 ELSE @,
                    !.itemFailed = IF dbOk THEN @ ELSE @ \cup {i}]
       IN  /\ order_items' = IF dbOk THEN Append(order_items, row) ELSE order_items
           /\ inv' = [inv EXCEPT ![h] =
                        IF i = Len(lineItems) THEN Respond(r, 200) ELSE r]
    /\ UNCHANGED <<orders, nextOrderId>>
    /\ UNCHANGED clientVars

\* ------------------------------------------- checkout success view (reader)
\* SuccessInner: the effect of lines 122-176 runs on mount and whenever sid
\* changes; each run has its own `mounted` flag, cleared by the cleanup.
attempts == 6

StatusConfirming == "Confirming your order"
StatusStill == "Still confirming"
StatusConfirmed == "Order confirmed!"
StatusProcessing == "Payment received. Your order is still processing."
StatusMissing == "Missing checkout session. Please check your Orders."

\* useState initial values, lines 44-48.
InitialSuccess ==
    [loading |-> TRUE, order |-> NoOrder, items |-> <<>>,
     statusMsg |-> StatusConfirming, error |-> NULL]

\* pc: "idle" | "orderRead" (orders query in flight) | "itemsRead" (order_items
\*     query in flight) | "delay" (setTimeout pending) | "done".
\* i: the loop counter; orderData: the row the orders query returned.
\* Read by the properties only: outcome, readFailed (a query of the run
\* failed), retried (the run found the order after more than one attempt).
IdleRun ==
    [pc |-> "idle", sid |-> NoSid, mounted |-> FALSE, i |-> 0, orderData |-> NoOrder,
     readFailed |-> FALSE, retried |-> FALSE, outcome |-> "none"]

\* A state setter called by the load() of run r: React drops it when the
\* component is unmounted.
SetState(r, new) ==
    /\ success' = IF alive THEN new ELSE success
    /\ lastWriter' = IF alive THEN r ELSE lastWriter

\* load() returns: its locals are gone.
Finish(run, outcome) ==
    [IdleRun EXCEPT !.pc = "done", !.outcome = outcome,
                    !.readFailed = run.readFailed,
                    !.retried = (outcome = "confirmed" /\ run.i >= 1)]

\* catch and finally of load(), lines 162-169, for run r in state `run`.
Catch(r, run) ==
    IF ~run.mounted
    THEN /\ runs' = [runs EXCEPT ![r] = Finish(run, "cancelled")]
         /\ UNCHANGED <<success, lastWriter>>
    ELSE /\ runs' = [runs EXCEPT ![r] = Finish(run, "error")]
         /\ SetState(r, [success EXCEPT !.error = "read error", !.loading = FALSE])

\* The effect runs (mount, or sid changed): the cleanup of the previous run
\* clears its `mounted`, then load() runs up to its first await
\* (lines 122-144 and 76-98).
EffectRun(newSid) ==
    /\ alive /\ nRuns < MaxEffects
    /\ nRuns = 0 \/ newSid # sid
    /\ LET r == nRuns + 1
           cleaned == IF nRuns = 0 THEN runs
                      ELSE [runs EXCEPT ![nRuns].mounted = FALSE]
           st0 == [success EXCEPT !.loading = TRUE, !.error = NULL]
           run == [IdleRun EXCEPT !.sid = newSid, !.mounted = TRUE]
       IN  /\ sid' = newSid
           /\ nRuns' = r
           /\ IF newSid = NoSid
              THEN /\ runs' = [cleaned EXCEPT ![r] = Finish(run, "missing")]
                   /\ SetState(r, [st0 EXCEPT !.statusMsg = StatusMissing,
                                              !.loading = FALSE])
              ELSE /\ runs' = [cleaned EXCEPT ![r] = [run EXCEPT !.pc = "orderRead"]]
                   /\ SetState(r, [st0 EXCEPT !.statusMsg = StatusConfirming])
    /\ UNCHANGED <<alive, orders, order_items, nextOrderId, inv>>
    /\ UNCHANGED <<listVars, salesVars, co, cartVars, nameVars>>

\* The component unmounts: the cleanup of the current run, lines 173-175.
Unmount ==
    /\ alive /\ nRuns > 0
    /\ alive' = FALSE
    /\ runs' = [runs EXCEPT ![nRuns].mounted = FALSE]
    /\ UNCHANGED <<success, sid, nRuns, lastWriter, orders, order_items, nextOrderId, inv>>
    /\ UNCHANGED <<listVars, salesVars, co, cartVars, nameVars>>

\* OrderRead that treats a failed orders query as "not found yet" and goes on
\* to the next attempt.
OrderReadRetryOnError(r, ok) ==
    /\ runs[r].pc = "orderRead"
    /\ LET rows == OrdersOf(runs[r].sid)
           orderErr == ~ok \/ Cardinality(rows) > 1
           run == [runs[r] EXCEPT !.readFailed = orderErr]
       IN  /\ runs' = [runs EXCEPT ![r] =
                    IF orderErr \/ rows = {} THEN [run EXCEPT !.pc = "delay"]
                    ELSE [run EXCEPT !.pc = "itemsRead",
                                     !.orderData = CHOOSE o \in rows : TRUE]]
           /\ UNCHANGED <<success, lastWriter>>
    /\ UNCHANGED <<sid, nRuns, alive, orders, order_items, nextOrderId, inv>>
    /\ UNCHANGED <<listVars, salesVars, co, cartVars, nameVars>>

\* fetchOrderAndItems, lines 76-115: the orders query (maybeSingle) resolves;
\* a row found, the order_items query is issued.
OrderRead(r, ok) ==
    /\ runs[r].pc = "orderRead"
    /\ LET rows == OrdersOf(runs[r].sid)
           orderErr == ~ok \/ Cardinality(rows) > 1
           run == [runs[r] EXCEPT !.readFailed = orderErr]
       IN  IF orderErr THEN Catch(r, run)
           ELSE /\ runs' = [runs EXCEPT ![r] =
                    IF rows = {} THEN [run EXCEPT !.pc = "delay"]
                    ELSE [run EXCEPT !.pc = "itemsRead",
                                     !.orderData = CHOOSE o \in rows : TRUE]]
                /\ UNCHANGED <<success, lastWriter>>
    /\ UNCHANGED <<sid, nRuns, alive, orders, order_items, nextOrderId, inv>>
    /\ UNCHANGED <<listVars, salesVars, co, cartVars, nameVars>>

\* lines 111-119 and 146-152: the order_items query resolves and load()
\* commits the order and its items.
ItemsRead(r, ok) ==
    /\ runs[r].pc = "itemsRead"
    /\ LET itemsData == ItemsOfOrder(runs[r].orderData.id)
           run == [runs[r] EXCEPT !.readFailed = ~ok]
       IN  IF ~ok THEN Catch(r, run)
           ELSE IF ~run.mounted
           THEN /\ runs' = [runs EXCEPT ![r] = Finish(run, "cancelled")]
                /\ UNCHANGED <<success, lastWriter>>
           ELSE /\ runs' = [runs EXCEPT ![r] = Finish(run, "confirmed")]
                /\ SetState(r, [success EXCEPT !.order = run.orderData,
                                               !.items = itemsData,
                                               !.statusMsg = StatusConfirmed,
                                               !.loading = FALSE])
    /\ UNCHANGED <<sid, nRuns, alive, orders, order_items, nextOrderId, inv>>
    /\ UNCHANGED <<listVars, salesVars, co, cartVars, nameVars>>

\* DelayElapsed that gives up after the first attempt (no retry).
DelayElapsedNoRetry(r) ==
    /\ runs[r].pc = "delay"
    /\ LET run == [runs[r] EXCEPT !.i = @ + 1]
       IN  /\ runs' = [runs EXCEPT ![r] = Finish(run, "processing")]
           /\ SetState(r, [success EXCEPT !.order = NoOrder, !.items = <<>>,
                               !.statusMsg = StatusProcessing,
                               !.loading = IF run.mounted THEN FALSE ELSE @])
    /\ UNCHANGED <<sid, nRuns, alive, orders, order_items, nextOrderId, inv>>
    /\ UNCHANGED <<listVars, salesVars, co, cartVars, nameVars>>

\* DelayElapsed that reports the order not found after the last attempt as an
\* error.
DelayElapsedNotFoundIsError(r) ==
    /\ runs[r].pc = "delay"
    /\ LET i == runs[r].i + 1
           run == [runs[r] EXCEPT !.i = i]
       IN  IF i < attempts
           THEN IF ~run.mounted
                THEN /\ runs' = [runs EXCEPT ![r] = Finish(run, "cancelled")]
                     /\ UNCHANGED <<success, lastWriter>>
                ELSE /\ runs' = [runs EXCEPT ![r] = [run EXCEPT !.pc = "orderRead"]]
                     /\ SetState(r, [success EXCEPT !.statusMsg = StatusStill])
           ELSE /\ runs' = [runs EXCEPT ![r] = Finish(run, "error")]
                /\ SetState(r, [success EXCEPT !.order = NoOrder, !.items = <<>>,
                                    !.error = "not found",
                                    !.loading = IF run.mounted THEN FALSE ELSE @])
    /\ UNCHANGED <<sid, nRuns, alive, orders, order_items, nextOrderId, inv>>
    /\ UNCHANGED <<listVars, salesVars, co, cartVars, nameVars>>

\* lines 155-161 and 139-144: the delay is over; the next attempt is issued
\* (unless the run was cancelled), or, after the last attempt, the view is set
\* to "still processing" (lines 158-161 do not look at `mounted`).
DelayElapsed(r) ==
    /\ runs[r].pc = "delay"
    /\ LET i == runs[r].i + 1
           run == [runs[r] EXCEPT !.i = i]
       IN  IF i < attempts
           THEN IF ~run.mounted
                THEN /\ runs' = [runs EXCEPT ![r] = Finish(run, "cancelled")]
                     /\ UNCHANGED <<success, lastWriter>>
                ELSE /\ runs' = [runs EXCEPT ![r] = [run EXCEPT !.pc = "orderRead"]]
                     /\ SetState(r, [success EXCEPT !.statusMsg = StatusStill])
           ELSE /\ runs' = [runs EXCEPT ![r] = Finish(run, "processing")]
                /\ SetState(r, [success EXCEPT !.order = NoOrder, !.items = <<>>,
                                    !.statusMsg = StatusProcessing,
                                    !.loading = IF run.mounted THEN FALSE ELSE @])
    /\ UNCHANGED <<sid, nRuns, alive, orders, order_items, nextOrderId, inv>>
    /\ UNCHANGED <<listVars, salesVars, co, cartVars, nameVars>>

\* ------------------------------------------------------- buyer order list
\* OrdersPage of app/orders/page.tsx ("orders") and its session-restoring
\* variant of app/signup/page.tsx ("signup"): loadOrders takes seq =
\* ++loadSeq.current and compares it with loadSeq.current after every await.

\* useState initial values, orders/page.tsx 43-46.
InitialOrdersPage ==
    [orders |-> <<>>, loading |-> TRUE, error |-> NULL, userId |-> NULL]

\* pc: "idle" | "restore" (forceRestoreSession pending, signup variant) |
\*     "getSession" (getSession / getUser pending) | "ordersQuery" | "done".
\* user: the user the session lookup returned.
\* Read by the properties only: outcome, data (the rows the orders query
\* returned), late (a response of this call arrived after a newer call had
\* finished).
IdleLoad ==
    [pc |-> "idle", user |-> NULL, outcome |-> "none", data |-> <<>>,
     late |-> FALSE]

\* orders joined with their order_items, newest first (the select of
\* orders/page.tsx 84-102).
JoinedRow(o) ==
    [id |-> o.id, user_id |-> o.user_id, amount_cents |-> o.amount_cents,
     order_items |-> [k \in 1..Len(ItemsOfOrder(o.id)) |->
                        [product_slug |-> ItemsOfOrder(o.id)[k].product_slug,
                         qty |-> ItemsOfOrder(o.id)[k].qty,
                         price_cents |-> ItemsOfOrder(o.id)[k].price_cents]]]

RECURSIVE NewestFirst(_)
NewestFirst(S) ==
    IF S = {} THEN <<>>
    ELSE LET m == CHOOSE o \in S : \A q \in S : q.id <= o.id
         IN  <<JoinedRow(m)>> \o NewestFirst(S \ {m})

OrdersOfUser(u) == NewestFirst({o \in orders : o.user_id = u})

\* A state setter called by the loadOrders call with sequence number seq.
SetOrdersPage(seq, new) ==
    /\ ordersPage' = new
    /\ uiWriter' = seq

\* A newer call of loadOrders has finished.
NewerDone(l) == \E n \in Loads : n > l /\ loads[n].pc = "done"

EndLoad(ld, outcome) == [ld EXCEPT !.pc = "done", !.outcome = outcome]

\* The superseded call returns at a `seq !== loadSeq.current` check; its
\* finally block sets nothing.
Superseded(l, ld) ==
    /\ loads' = [loads EXCEPT ![l] = EndLoad(ld, "superseded")]
    /\ UNCHANGED <<ordersPage, uiWriter>>

\* catch and finally of loadOrders for the current call, orders/page.tsx
\* 112-119.
LoadFailed(l, ld) ==
    /\ loads' = [loads EXCEPT ![l] = EndLoad(ld, "failed")]
    /\ SetOrdersPage(l, [ordersPage EXCEPT !.orders = <<>>,
                             !.error = "load error", !.loading = FALSE])

\* loadOrders up to its first await, orders/page.tsx 59-67 and signup/page.tsx
\* 783-797.  It is called on mount, on an auth state change, when the tab
\* becomes visible and by the Refresh button.
StartLoad ==
    /\ page # "none" /\ loadSeq < MaxLoads
    /\ loadSeq' = loadSeq + 1
    /\ loads' = [loads EXCEPT ![loadSeq + 1] =
                    [IdleLoad EXCEPT !.pc = IF page = "signup" THEN "restore"
                                            ELSE "getSession"]]
    /\ SetOrdersPage(loadSeq + 1,
                     [ordersPage EXCEPT !.loading = TRUE, !.error = NULL])

\* The page mounts and its effect calls loadOrders, orders/page.tsx 122-130.
MountOrdersPage(p) ==
    /\ page = "none"
    /\ page' = p
    /\ loadSeq' = loadSeq + 1
    /\ loads' = [loads EXCEPT ![loadSeq + 1] =
                    [IdleLoad EXCEPT !.pc = IF p = "signup" THEN "restore"
                                            ELSE "getSession"]]
    /\ SetOrdersPage(loadSeq + 1,
                     [ordersPage EXCEPT !.loading = TRUE, !.error = NULL])
    /\ UNCHANGED <<authUser, orders, order_items, nextOrderId, inv>>
    /\ UNCHANGED <<successVars, salesVars, co, cartVars, nameVars>>

\* A refetch: the tab becomes visible again or Refresh is clicked
\* (orders/page.tsx 137-141).
Refetch ==
    /\ StartLoad
    /\ UNCHANGED <<page, authUser, orders, order_items, nextOrderId, inv>>
    /\ UNCHANGED <<successVars, salesVars, co, cartVars, nameVars>>

\* The auth session changes (sign in, sign out, another user); the
\* onAuthStateChange listener calls loadOrders (orders/page.tsx 133-135).
AuthStateChange(u) ==
    /\ u # authUser
    /\ authUser' = u
    /\ IF page # "none" THEN StartLoad
       ELSE UNCHANGED <<ordersPage, loadSeq, loads, uiWriter>>
    /\ UNCHANGED <<page, orders, order_items, nextOrderId, inv>>
    /\ UNCHANGED <<successVars, salesVars, co, cartVars, nameVars>>

\* signup/page.tsx 797-801: forceRestoreSession resolves (it never throws);
\* getUser is called.
RestoreResolved(l) ==
    /\ loads[l].pc = "restore"
    /\ LET ld == [loads[l] EXCEPT !.late = @ \/ NewerDone(l)]
       IN  IF l # loadSeq THEN Superseded(l, ld)
           ELSE /\ loads' = [loads EXCEPT ![l] = [ld EXCEPT !.pc = "getSession"]]
                /\ UNCHANGED <<ordersPage, uiWriter>>
    /\ UNCHANGED <<page, loadSeq, authUser, orders, order_items, nextOrderId, inv>>
    /\ UNCHANGED <<successVars, salesVars, co, cartVars, nameVars>>

\* orders/page.tsx 67-105 (signup/page.tsx 801-833): the session lookup
\* resolves, with an error, or (orders variant) the timeout rejects first.
SessionResolved(l, ok) ==
    /\ loads[l].pc = "getSession"
    /\ LET ld == [loads[l] EXCEPT !.late = @ \/ NewerDone(l), !.user = authUser]
       IN  IF l # loadSeq THEN Superseded(l, ld)
           ELSE IF ~ok THEN LoadFailed(l, ld)
           ELSE IF authUser = NULL
           THEN /\ loads' = [loads EXCEPT ![l] = EndLoad(ld, "signedOut")]
                /\ SetOrdersPage(l, [ordersPage EXCEPT !.userId = NULL,
                                        !.orders = <<>>,
                                        !.error = "Please sign in to view your orders.",
                                        !.loading = FALSE])
           ELSE /\ loads' = [loads EXCEPT ![l] = [ld EXCEPT !.pc = "ordersQuery"]]
                /\ SetOrdersPage(l, [ordersPage EXCEPT !.userId = authUser])
    /\ UNCHANGED <<page, loadSeq, authUser, orders, order_items, nextOrderId, inv>>
    /\ UNCHANGED <<successVars, salesVars, co, cartVars, nameVars>>

\* OrdersResolved without the check of seq after the orders query.
OrdersResolvedUnguarded(l, ok) ==
    /\ loads[l].pc = "ordersQuery"
    /\ LET data == OrdersOfUser(loads[l].user)
           ld == [loads[l] EXCEPT !.late = @ \/ NewerDone(l),
                                  !.data = IF ok THEN data ELSE @]
       IN  IF ~ok THEN
                IF l # loadSeq THEN Superseded(l, ld) ELSE LoadFailed(l, ld)
           ELSE /\ loads' = [loads EXCEPT ![l] = EndLoad(ld, "ok")]
                /\ SetOrdersPage(l, [ordersPage EXCEPT !.orders = data,
                       !.loading = IF l = loadSeq THEN FALSE ELSE @])
    /\ UNCHANGED <<page, loadSeq, authUser, orders, order_items, nextOrderId, inv>>
    /\ UNCHANGED <<successVars, salesVars, co, cartVars, nameVars>>

\* OrdersResolved whose query has no .eq('user_id', user.id).
OrdersResolvedAllUsers(l, ok) ==
    /\ loads[l].pc = "ordersQuery"
    /\ LET data == NewestFirst(orders)
           ld == [loads[l] EXCEPT !.late = @ \/ NewerDone(l),
                                  !.data = IF ok THEN data ELSE @]
       IN  IF l # loadSeq THEN Superseded(l, ld)
           ELSE IF ~ok THEN LoadFailed(l, ld)
           ELSE /\ loads' = [loads EXCEPT ![l] = EndLoad(ld, "ok")]
                /\ SetOrdersPage(l, [ordersPage EXCEPT !.orders = data,
                                                       !.loading = FALSE])
    /\ UNCHANGED <<page, loadSeq, authUser, orders, order_items, nextOrderId, inv>>
    /\ UNCHANGED <<successVars, salesVars, co, cartVars, nameVars>>

\* orders/page.tsx 83-119 (signup/page.tsx 815-847): the orders query
\* resolves, with an error, or the timeout rejects first.
OrdersResolved(l, ok) ==
    /\ loads[l].pc = "ordersQuery"
    /\ LET data == OrdersOfUser(loads[l].user)
           ld == [loads[l] EXCEPT !.late = @ \/ NewerDone(l),
                                  !.data = IF ok THEN data ELSE @]
       IN  IF l # loadSeq THEN Superseded(l, ld)
           ELSE IF ~ok THEN LoadFailed(l, ld)
           ELSE /\ loads' = [loads EXCEPT ![l] = EndLoad(ld, "ok")]
                /\ SetOrdersPage(l, [ordersPage EXCEPT !.orders = data,
                                                       !.loading = FALSE])
    /\ UNCHANGED <<page, loadSeq, authUser, orders, order_items, nextOrderId, inv>>
    /\ UNCHANGED <<successVars, salesVars, co, cartVars, nameVars>>

\* ------------------------------------------------------ seller sales view
\* SellerSalesPage (unnamed/part_001): load() takes seq = ++loadSeq.current
\* and checks `!mounted || seq !== loadSeq.current` after every await; its
\* catch checks `mounted` only and its finally compares loadSeq.current with
\* itself.  The variants of app/seller/orders/page.tsx and unnamed/part_002
\* have no generation number.

\* useState initial values, part_001 77-80.
InitialSalesPage ==
    [items |-> <<>>, loading |-> TRUE, error |-> NULL, userId |-> NULL]

\* pc: "idle" | "getSession" | "joinQuery" | "plainQuery" | "ordersQuery" |
\*     "done".  uid: the user of the session; plain: the rows the plain
\* order_items query returned.  Read by the properties only: join (what the
\* joined query returned) and outcome.
IdleSale ==
    [pc |-> "idle", uid |-> NULL, plain |-> <<>>, join |-> "none", outcome |-> "none"]

RECURSIVE Reverse(_)
Reverse(s) == IF s = <<>> THEN <<>> ELSE Reverse(Tail(s)) \o <<Head(s)>>

\* order_items .eq('seller_id', uid) .order('created_at', descending).
ItemsOfSeller(uid) == Reverse(SelectSeq(order_items, LAMBDA r : r.seller_id = uid))

OrderById(id) ==
    IF \E o \in orders : o.id = id THEN CHOOSE o \in orders : o.id = id ELSE NoOrder

\* An ItemRow of the view: the order_items row with its order under `orders`
\* (NoOrder: undefined).
ItemRow(it, o) ==
    [order_id |-> it.order_id, product_slug |-> it.product_slug, qty |-> it.qty,
     price_cents |-> it.price_cents, seller_id |-> it.seller_id, orders |-> o]

\* The rows of the joined query (orders!inner): the seller's items whose order
\* the seller may read.  visible = FALSE: the row-level policy hides the orders.
JoinedItems(uid, visible) ==
    IF visible
    THEN [k \in 1..Len(ItemsOfSeller(uid)) |->
             ItemRow(ItemsOfSeller(uid)[k], OrderById(ItemsOfSeller(uid)[k].order_id))]
    ELSE <<>>

\* part_001 193-224: the ids of the orders the lookup .in('id', orderIds)
\* returns.  "rows": all of them; "partial": the row-level policy hides the
\* order of the newest item and lets the others through; otherwise none.
ReadableOrders(plain, res) ==
    LET orderIds == {plain[k].order_id : k \in 1..Len(plain)}
    IN  IF res = "rows" THEN orderIds
        ELSE IF res = "partial" THEN orderIds \ {plain[1].order_id}
        ELSE {}

\* part_001 226-229: the plain items with the orders that could be read.
Stitched(plain, readable) ==
    [k \in 1..Len(plain) |->
        ItemRow(plain[k], IF plain[k].order_id \in readable
                          THEN OrderById(plain[k].order_id) ELSE NoOrder)]

\* part_001 263-291: what the view renders.
Grouped(items) == {items[k].order_id : k \in {j \in 1..Len(items) : items[j].orders # NoOrder}}
NoOrdersVisible(items) ==
    Grouped(items) = {} /\ Len(items) > 0 /\ items[1].orders = NoOrder
NoSalesView ==
    /\ ~salesPage.loading /\ salesPage.error = NULL
    /\ Grouped(salesPage.items) = {} /\ ~NoOrdersVisible(salesPage.items)

\* A state setter called by the load with sequence number seq.
SetSalesPage(seq, new) ==
    /\ salesPage' = new
    /\ salesWriter' = seq

EndSale(ld, outcome) ==
    [IdleSale EXCEPT !.pc = "done", !.outcome = outcome, !.join = ld.join]

\* load() returns while the effect is mounted, having set the state to st:
\* the finally block, part_001 237-239, sets loading whatever seq is.
SalesReturn(l, ld, outcome, st) ==
    /\ sales' = [sales EXCEPT ![l] = EndSale(ld, outcome)]
    /\ SetSalesPage(l, [st EXCEPT !.loading = FALSE])

\* load() returns after the cleanup of the effect: the checks of `mounted`
\* (guards, catch, finally) let it set nothing.
SalesCancelled(l, ld) ==
    /\ sales' = [sales EXCEPT ![l] = EndSale(ld, "cancelled")]
    /\ UNCHANGED <<salesPage, salesWriter>>

\* The catch block, part_001 232-236, reached by a thrown error or a
\* rejected withTimeout; seq is not checked.
SalesCatch(l, ld) ==
    SalesReturn(l, ld, "failed",
                [salesPage EXCEPT !.items = <<>>, !.error = "load error"])

\* load() up to its first await, part_001 91-99.
StartSale ==
    /\ salesMounted = "yes" /\ salesSeq < MaxLoads
    /\ salesSeq' = salesSeq + 1
    /\ sales' = [sales EXCEPT ![salesSeq + 1] = [IdleSale EXCEPT !.pc = "getSession"]]
    /\ SetSalesPage(salesSeq + 1, [salesPage EXCEPT !.loading = TRUE, !.error = NULL])

\* The page mounts: the effect sets `mounted` and calls load(), part_001 88-243.
MountSalesPage ==
    /\ salesMounted = "no"
    /\ salesMounted' = "yes"
    /\ salesSeq' = salesSeq + 1
    /\ sales' = [sales EXCEPT ![salesSeq + 1] = [IdleSale EXCEPT !.pc = "getSession"]]
    /\ SetSalesPage(salesSeq + 1, [salesPage EXCEPT !.loading = TRUE, !.error = NULL])
    /\ UNCHANGED <<authUser, page, ordersPage, loadSeq, loads, uiWriter, co, cartVars, nameVars>>
    /\ UNCHANGED <<orders, order_items, nextOrderId, inv>>
    /\ UNCHANGED successVars

\* The cleanup of the effect, part_001 256-260.
UnmountSalesPage ==
    /\ salesMounted = "yes"
    /\ salesMounted' = "gone"
    /\ UNCHANGED <<salesPage, salesSeq, sales, salesWriter>>
    /\ UNCHANGED <<authUser, page, ordersPage, loadSeq, loads, uiWriter, co, cartVars, nameVars>>
    /\ UNCHANGED <<orders, order_items, nextOrderId, inv>>
    /\ UNCHANGED successVars

\* The tab becomes visible again, part_001 250-254.
SalesVisible ==
    /\ StartSale
    /\ UNCHANGED <<salesMounted, authUser, page, ordersPage, loadSeq, loads, uiWriter, co, cartVars, nameVars>>
    /\ UNCHANGED <<orders, order_items, nextOrderId, inv>>
    /\ UNCHANGED successVars

\* The auth session changes; the onAuthStateChange listener calls load(),
\* part_001 245-248.
SalesAuthStateChange(u) ==
    /\ u # authUser
    /\ authUser' = u
    /\ IF salesMounted = "yes" THEN StartSale
       ELSE UNCHANGED <<salesPage, salesSeq, sales, salesWriter>>
    /\ UNCHANGED <<salesMounted, page, ordersPage, loadSeq, loads, uiWriter, co, cartVars, nameVars>>
    /\ UNCHANGED <<orders, order_items, nextOrderId, inv>>
    /\ UNCHANGED successVars

SaleOutcomes == {"ok", "error", "timeout"}
QueryOutcomes == {"rows", "hidden", "error", "timeout"}
LookupOutcomes == QueryOutcomes \cup {"partial"}

\* part_001 99-113: getSession resolves (res = "ok" or "error"), or the
\* timeout of withTimeout rejects first.
SaleSessionResolved(l, res) ==
    /\ sales[l].pc = "getSession"
    /\ LET ld == [sales[l] EXCEPT !.uid = authUser]
       IN  IF salesMounted # "yes" THEN SalesCancelled(l, ld)
           ELSE IF res = "timeout" THEN SalesCatch(l, ld)
           ELSE IF l # salesSeq THEN SalesReturn(l, ld, "superseded", salesPage)
           ELSE IF res = "error" THEN SalesCatch(l, ld)
           ELSE IF authUser = NULL
           THEN SalesReturn(l, ld, "signedOut",
                    [salesPage EXCEPT !.userId = NULL, !.items = <<>>,
                                      !.error = "Please sign in first."])
           ELSE /\ sales' = [sales EXCEPT ![l] = [ld EXCEPT !.pc = "joinQuery"]]
                /\ SetSalesPage(l, [salesPage EXCEPT !.userId = authUser])
    /\ UNCHANGED <<salesMounted, salesSeq, authUser, page, ordersPage, loadSeq, loads,
                   uiWriter, co, cartVars, nameVars>>
    /\ UNCHANGED <<orders, order_items, nextOrderId, inv>>
    /\ UNCHANGED successVars

\* part_001 116-160: the joined query resolves.  "rows": the seller may read
\* the orders; "hidden": the row-level policy hides the orders of items the
\* seller has, the inner join leaves no row and there is no error; "error":
\* the query is refused; "timeout": withTimeout rejects.
SaleJoinResolved(l, res) ==
    /\ sales[l].pc = "joinQuery"
    /\ res = "hidden" => Len(ItemsOfSeller(sales[l].uid)) > 0
    /\ LET ld == [sales[l] EXCEPT !.join = res]
       IN  IF salesMounted # "yes" THEN SalesCancelled(l, ld)
           ELSE IF res = "timeout" THEN SalesCatch(l, ld)
           ELSE IF l # salesSeq THEN SalesReturn(l, ld, "superseded", salesPage)
           ELSE IF res \in {"rows", "hidden"}
           THEN SalesReturn(l, ld, "joined",
                    [salesPage EXCEPT !.items = JoinedItems(ld.uid, res = "rows")])
           ELSE /\ sales' = [sales EXCEPT ![l] = [ld EXCEPT !.pc = "plainQuery"]]
                /\ UNCHANGED <<salesPage, salesWriter>>
    /\ UNCHANGED <<salesMounted, salesSeq, authUser, page, ordersPage, loadSeq, loads,
                   uiWriter, co, cartVars, nameVars>>
    /\ UNCHANGED <<orders, order_items, nextOrderId, inv>>
    /\ UNCHANGED successVars

\* part_001 162-192 and 226-231: the plain order_items query resolves; with
\* no items there is no orders lookup and the empty list is committed.
SalePlainResolved(l, res) ==
    /\ sales[l].pc = "plainQuery"
    /\ LET plainItems == ItemsOfSeller(sales[l].uid)
           ld == sales[l]
       IN  IF salesMounted # "yes" THEN SalesCancelled(l, ld)
           ELSE IF res = "timeout" THEN SalesCatch(l, ld)
           ELSE IF l # salesSeq THEN SalesReturn(l, ld, "superseded", salesPage)
           ELSE IF res = "error" THEN SalesCatch(l, ld)
           ELSE IF plainItems = <<>>
           THEN SalesReturn(l, ld, "stitched", [salesPage EXCEPT !.items = <<>>])
           ELSE /\ sales' = [sales EXCEPT ![l] =
                                [ld EXCEPT !.pc = "ordersQuery", !.plain = plainItems]]
                /\ UNCHANGED <<salesPage, salesWriter>>
    /\ UNCHANGED <<salesMounted, salesSeq, authUser, page, ordersPage, loadSeq, loads,
                   uiWriter, co, cartVars, nameVars>>
    /\ UNCHANGED <<orders, order_items, nextOrderId, inv>>
    /\ UNCHANGED successVars

\* part_001 193-231: the orders lookup by id resolves; an error or hidden
\* orders leave the items without their order.  "partial" needs items of
\* two orders at least.
SaleOrdersResolved(l, res) ==
    /\ sales[l].pc = "ordersQuery"
    /\ res = "partial" =>
          ReadableOrders(sales[l].plain, "partial") # {}
    /\ LET ld == sales[l]
       IN  IF salesMounted # "yes" THEN SalesCancelled(l, ld)
           ELSE IF res = "timeout" THEN SalesCatch(l, ld)
           ELSE IF l # salesSeq THEN SalesReturn(l, ld, "superseded", salesPage)
           ELSE SalesReturn(l, ld, "stitched",
                    [salesPage EXCEPT !.items =
                        Stitched(ld.plain, ReadableOrders(ld.plain, res))])
    /\ UNCHANGED <<salesMounted, salesSeq, authUser, page, ordersPage, loadSeq, loads,
                   uiWriter, co, cartVars, nameVars>>
    /\ UNCHANGED <<orders, order_items, nextOrderId, inv>>
    /\ UNCHANGED successVars

\* ------------------------------------------------------ checkout initiation
\* POST /api/checkout and the edge function create-checkout-session it
\* invokes.  The repository has three versions of the route handler:
\*   "publicBase"  unnamed/part_004 1-67     (getPublicBaseUrl, checks items)
\*   "origin"      unnamed/part_004 69-119   (getOrigin)
\*   "env"         app/checkout/page.tsx 195-227

Routes == {"publicBase", "origin", "env"}

\* A URL: scheme, host and whether it ends with a slash.  NoUrl: not set.
Url(proto, host, slash) == [proto |-> proto, host |-> host, slash |-> slash]
NoUrl == Url("", "", FALSE)

\* A response body with neither url nor error.
NoBody == [url |-> NoUrl, error |-> NULL]

\* url.replace(/\/$/, "")
StripSlash(u) == [u EXCEPT !.slash = FALSE]

\* host.includes("localhost")
IncludesLocalhost(host) == host \in {"localhost:3000"}

LocalhostDefault == Url("http", "localhost:3000", FALSE)

\* The environment and the request headers a request may meet.
SiteUrls == {NoUrl, Url("https", "alvy.co.uk", TRUE)}      \* NEXT_PUBLIC_SITE_URL
VercelUrls == {NULL, "alvy.vercel.app"}                    \* VERCEL_URL
OriginHeaders == {NoUrl, Url("https", "preview.example", FALSE)}
HostHeaders == {NULL, "localhost:3000", "shop.example"}

FromHost(host) == Url(IF IncludesLocalhost(host) THEN "http" ELSE "https", host, FALSE)

\* part_004 6-26.
getPublicBaseUrl(site, vercel, origin, host) ==
    IF site # NoUrl THEN StripSlash(site)
    ELSE IF origin # NoUrl THEN StripSlash(origin)
    ELSE IF host # NULL THEN StripSlash(FromHost(host))
    ELSE IF vercel # NULL THEN StripSlash(Url("https", vercel, FALSE))
    ELSE LocalhostDefault

\* part_004 73-90.
getOrigin(site, vercel, origin, host) ==
    IF origin # NoUrl THEN origin
    ELSE IF host # NULL THEN FromHost(host)
    ELSE IF site # NoUrl THEN site
    ELSE IF vercel # NULL THEN Url("https", vercel, FALSE)
    ELSE LocalhostDefault

\* app/checkout/page.tsx 203-205.
EnvOrigin(site, vercel) ==
    IF site # NoUrl THEN site
    ELSE IF vercel # NULL THEN Url("https", vercel, FALSE)
    ELSE LocalhostDefault

BaseUrl(route, site, vercel, origin, host) ==
    IF route = "publicBase" THEN getPublicBaseUrl(site, vercel, origin, host)
    ELSE IF route = "origin" THEN getOrigin(site, vercel, origin, host)
    ELSE EnvOrigin(site, vercel)

\* The request bodies: `items` is missing (not an array), empty, the cart of a
\* session, a cart whose second line has a price that is zero, negative or
\* missing, or a cart whose line has a slug the catalog does not know.
BadPrices == {0, -500}
BadPriceCart(price) == <<CartItem(2, 1), [CartItem(2, 2) EXCEPT !.price_cents = price]>>
NoPriceCart ==
    <<CartItem(2, 1),
      [quantity |-> 2, slug |-> CartItem(2, 2).slug, seller_id |-> CartItem(2, 2).seller_id]>>
UnknownSlugCart == <<[CartItem(1, 2) EXCEPT !.slug = "p9"]>>
Bodies ==
    {[isArray |-> FALSE, items |-> <<>>], [isArray |-> TRUE, items |-> <<>>],
     [isArray |-> TRUE, items |-> UnknownSlugCart]}
    \cup {[isArray |-> TRUE, items |-> Cart(s)] : s \in Sessions}
    \cup {[isArray |-> TRUE, items |-> BadPriceCart(price)] : price \in BadPrices}
    \cup {[isArray |-> TRUE, items |-> NoPriceCart]}

\* pc: "idle" | "edge" (the route awaits functions.invoke) | "lookup" (the edge
\*     function awaits the products lookup of line i) | "create" (it awaits
\*     stripe.checkout.sessions.create) | "done" (the route has answered) |
\*     "settled" (handleCheckout has dealt with the answer).
\* base: the base URL of success_url / cancel_url; param: the query parameter
\* of success_url that carries the session id; enhanced: the lines resolved so
\* far; edgeStatus / status: the HTTP status of the edge function / the route
\* (0: none yet).  Read by the properties only: lk (per line, whether its
\* lookup was skipped, returned or failed), createCalled (sessions.create was
\* called), line_items (what it was called with), created (the provider
\* created the session), nInvoke / nCreate (calls of functions.invoke / of
\* sessions.create), thrown (the message sessions.create threw with, "none":
\* it did not throw).  edgeBody / payload: the body of the answer of the edge
\* function / of the route; redirect: where handleCheckout sent the browser;
\* alert: the alert it showed; query: the query of the success URL the
\* provider sent the buyer back to; viewSid: what the success view reads as
\* sid (NoSid: null).  pc "returned": the buyer is back on the success view.
IdleCheckout ==
    [pc |-> "idle", route |-> "none", site |-> NoUrl, vercel |-> NULL,
     origin |-> NoUrl, host |-> NULL, body |-> [isArray |-> FALSE, items |-> <<>>],
     user_id |-> NULL, base |-> NoUrl, param |-> "none", i |-> 0, enhanced |-> <<>>,
     edgeStatus |-> 0, status |-> 0, lk |-> <<>>, createCalled |-> FALSE,
     line_items |-> <<>>, created |-> FALSE,
     nInvoke |-> 0, nCreate |-> 0, thrown |-> "none",
     edgeBody |-> NoBody, payload |-> NoBody, redirect |-> NoUrl, alert |-> NULL,
     query |-> [key |-> "none", value |-> NoSid], viewSid |-> NoSid]

\* The messages sessions.create throws with; NULL: an error without a message.
ProviderErrors == {"Invalid API Key provided", "Invalid integer: -500", NULL}
CreateOutcomes == {"created"} \cup ProviderErrors

\* session.url
SessionUrl == Url("https", "checkout.stripe.com", FALSE)

\* functions.invoke answers a non-2xx response of the function with a
\* FunctionsHttpError, whose message is fixed; the response is its context.
FunctionsHttpErrorMessage == "Edge Function returned a non-2xx status code"
\* String(error)
FunctionsHttpErrorString == "FunctionsHttpError: Edge Function returned a non-2xx status code"

\* The answer of POST /api/checkout after functions.invoke (part_004 49-62,
\* 105-114, checkout/page.tsx 217-222): for an error of invoke the route
\* answers 500 with error?.message ("publicBase") or String(error).
RouteAnswer(route, edgeStatus, edgeBody) ==
    IF edgeStatus # 200
    THEN [url |-> NoUrl,
          error |-> IF route = "publicBase" THEN FunctionsHttpErrorMessage
                    ELSE FunctionsHttpErrorString]
    ELSE [url |-> edgeBody.url, error |-> NULL]

\* Array.isArray(items) && items.length > 0
HasItems(body) == body.isArray /\ Len(body.items) > 0

\* The edge function answers; functions.invoke gives the route an error for a
\* non-2xx answer and the route answers 500 (part_004 49-55, 105-108).
EdgeResponds(c, edgeStatus, body) ==
    [c EXCEPT !.pc = "done", !.edgeStatus = edgeStatus, !.edgeBody = body,
              !.status = IF edgeStatus = 200 THEN 200 ELSE 500,
              !.payload = RouteAnswer(c.route, edgeStatus, body)]

\* create-checkout-session 85-124: the loop over items from line i on, up to
\* the next products lookup or, after the last line, to sessions.create.
RECURSIVE ResolveFrom(_, _)
ResolveFrom(c, i) ==
    IF i > Len(c.body.items)
    THEN [c EXCEPT !.pc = "create", !.i = i, !.createCalled = TRUE,
                   !.nCreate = @ + 1,
                   !.line_items = [k \in 1..Len(c.enhanced) |-> SessionLine(c.enhanced[k])]]
    ELSE LET item == c.body.items[i]
         IN  IF ~Truthy(item.seller_id) /\ Truthy(item.slug)
             THEN [c EXCEPT !.pc = "lookup", !.i = i]
             ELSE ResolveFrom([c EXCEPT
                     !.enhanced = Append(@, [item EXCEPT !.seller_id = ResolveSeller(item, NULL)]),
                     !.lk = Append(@, "skipped")], i + 1)

\* EdgeServe without the check of items.
EdgeServeNoValidation ==
    /\ co.pc = "edge"
    /\ co' = ResolveFrom(co, 1)
    /\ UNCHANGED <<orders, order_items, nextOrderId, inv>>
    /\ UNCHANGED <<successVars, listVars, salesVars, cartVars, nameVars>>

\* create-checkout-session 30-101: the edge function receives the request,
\* checks items and runs to its first await.
EdgeServe ==
    /\ co.pc = "edge"
    /\ co' = IF ~HasItems(co.body)
             THEN EdgeResponds(co, 400, [url |-> NoUrl, error |-> "No items"])
             ELSE ResolveFrom(co, 1)
    /\ UNCHANGED <<orders, order_items, nextOrderId, inv>>
    /\ UNCHANGED <<successVars, listVars, salesVars, cartVars, nameVars>>

\* POST /api/checkout up to functions.invoke; the "publicBase" version
\* answers 400 itself when there are no items (part_004 34-36).
Post(route, site, vercel, origin, host, body, user) ==
    /\ co.pc = "idle"
    /\ LET c == [co EXCEPT !.route = route, !.site = site, !.vercel = vercel,
                           !.origin = origin, !.host = host, !.body = body,
                           !.user_id = user]
       IN  co' = IF route = "publicBase" /\ ~HasItems(body)
                 THEN [c EXCEPT !.pc = "done", !.status = 400,
                          !.payload = [url |-> NoUrl, error |-> "No items provided"]]
                 ELSE [c EXCEPT !.pc = "edge", !.nInvoke = @ + 1,
                          !.base = BaseUrl(route, site, vercel, origin, host),
                          !.param = IF route = "publicBase" THEN "session_id" ELSE "sid"]
    /\ UNCHANGED <<orders, order_items, nextOrderId, inv>>
    /\ UNCHANGED <<successVars, listVars, salesVars, cartVars, nameVars>>

\* create-checkout-session 90-101: the products lookup of line i resolves;
\* ok = FALSE: with an error (logged).  The loop goes on.
LookupResolved(ok) ==
    /\ co.pc = "lookup"
    /\ LET item == co.body.items[co.i]
           p == IF ok THEN Catalog(item.slug) ELSE NULL
           c == [co EXCEPT
                    !.enhanced = Append(@, [item EXCEPT !.seller_id = ResolveSeller(item, p)]),
                    !.lk = Append(@, IF ok THEN "returned" ELSE "failed")]
       IN  co' = ResolveFrom(c, co.i + 1)
    /\ UNCHANGED <<orders, order_items, nextOrderId, inv>>
    /\ UNCHANGED <<successVars, listVars, salesVars, cartVars, nameVars>>

\* create-checkout-session 155-169: the answer of the edge function once
\* sessions.create has settled with res.
CreateSettled(c, res) ==
    IF res = "created"
    THEN EdgeResponds([c EXCEPT !.created = TRUE], 200,
                      [url |-> SessionUrl, error |-> NULL])
    ELSE EdgeResponds([c EXCEPT !.thrown = res], 400,
                      [url |-> NoUrl,
                       error |-> IF res = NULL THEN "Unknown error" ELSE res])

\* SessionCreated that calls sessions.create once more when it threw.
SessionCreatedRetry(res) ==
    /\ co.pc = "create"
    /\ co' = IF res # "created" /\ co.nCreate < 2
             THEN [co EXCEPT !.nCreate = @ + 1]
             ELSE CreateSettled(co, res)
    /\ UNCHANGED <<orders, order_items, nextOrderId, inv>>
    /\ UNCHANGED <<successVars, listVars, salesVars, cartVars, nameVars>>

\* SessionCreated that records a pending order when the session is created.
SessionCreatedWritesOrder(res) ==
    /\ co.pc = "create"
    /\ co' = CreateSettled(co, res)
    /\ orders' = IF res = "created" THEN orders \cup
                     {[OrderRow(StripeSession(1), nextOrderId) EXCEPT !.status = "pending"]}
                 ELSE orders
    /\ nextOrderId' = IF res = "created" THEN nextOrderId + 1 ELSE nextOrderId
    /\ UNCHANGED <<order_items, inv>>
    /\ UNCHANGED <<successVars, listVars, salesVars, cartVars, nameVars>>

\* create-checkout-session 124-169: sessions.create resolves, or throws and
\* the catch answers 400 (500 in unnamed/part_011; the route answers 500
\* either way).
SessionCreated(res) ==
    /\ co.pc = "create"
    /\ co' = CreateSettled(co, res)
    /\ UNCHANGED <<orders, order_items, nextOrderId, inv>>
    /\ UNCHANGED <<successVars, listVars, salesVars, cartVars, nameVars>>

\* handleCheckout after the fetch (checkout/page.tsx 62-75): the browser goes
\* to the url of a 2xx answer; any other answer is thrown, logged and shown
\* as one fixed alert.
HandleResponse ==
    /\ co.pc = "done"
    /\ co' = IF co.status = 200
             THEN [co EXCEPT !.pc = "settled", !.redirect = co.payload.url]
             ELSE [co EXCEPT !.pc = "settled",
                             !.alert = "Could not start checkout. Please try again."]
    /\ UNCHANGED <<orders, order_items, nextOrderId, inv>>
    /\ UNCHANGED <<successVars, listVars, salesVars, cartVars, nameVars>>

\* The id of the session sessions.create creates for the request.
NewSession == MaxSessions + 1

\* sp.get('sid') (part_005 41-42, success/page.tsx 39-40, success-client.tsx
\* 38-39, part_006 39-40): the value of the parameter sid, null without it.
GetSid(query) == IF query.key = "sid" THEN query.value ELSE NoSid

\* The buyer has paid and the provider sends the browser to success_url with
\* the placeholder {CHECKOUT_SESSION_ID} replaced by the id of the session;
\* the success view reads its sid.
ReturnFromProvider ==
    /\ co.pc = "settled" /\ co.redirect # NoUrl
    /\ LET query == [key |-> co.param, value |-> NewSession]
       IN  co' = [co EXCEPT !.pc = "returned", !.query = query,
                            !.viewSid = GetSid(query)]
    /\ UNCHANGED <<orders, order_items, nextOrderId, inv>>
    /\ UNCHANGED <<successVars, listVars, salesVars, cartVars, nameVars>>

\* -------------------------------------------------------------------- cart
\* CartProvider (lib/supabaseClient.ts 22-125): `items` is React state,
\* hydrated from localStorage 'cart:v1' after mount and persisted there on
\* every change.

ItemIds == {"p1", "p2"}
PriceOfItem(id) == IF id = "p1" THEN 1000 ELSE 2000

\* meta: a set of <<key, value>> pairs, {} for null.
Metas == {{}, {<<"size", "M">>}, {<<"size", "L">>, <<"gift", "yes">>}}

\* { ...(prevItem.meta ?? {}), ...(item.meta ?? {}) }
MergeMeta(a, b) ==
    {kv \in a : \A nv \in b : nv[1] # kv[1]} \cup b

\* The quantities addItem is called with; an item may also come without one.
ReqQuantities == {-2, 0, 2, 3}

\* What the product page offers under an id: "p1" was repriced, renamed and
\* lost its image between two visits.
Offer(id, again) ==
    IF id = "p1" /\ again
    THEN [id |-> "p1", name |-> "Mug XL", price_cents |-> PriceOfItem("p1") + 500,
          image |-> NULL]
    ELSE [id |-> id, name |-> IF id = "p1" THEN "Mug" ELSE "Lamp",
          price_cents |-> PriceOfItem(id),
          image |-> IF id = "p1" THEN "mug.png" ELSE "lamp.png"]

\* addItem({...offer, meta}) and addItem({...offer, meta, quantity}).
Request(o, m) ==
    [id |-> o.id, name |-> o.name, price_cents |-> o.price_cents, image |-> o.image,
     meta |-> m]
RequestOf(o, m, q) ==
    [id |-> o.id, name |-> o.name, price_cents |-> o.price_cents, image |-> o.image,
     meta |-> m, quantity |-> q]

\* The calls of addItem: every meta and every quantity for "p1", the changed
\* offer of "p1", and "p2".
AddRequests ==
    {Request(Offer("p1", FALSE), m) : m \in Metas}
    \cup {RequestOf(Offer("p1", FALSE), {}, q) : q \in ReqQuantities}
    \cup {Request(Offer("p1", TRUE), {}), Request(Offer("p2", FALSE), {}),
          RequestOf(Offer("p2", FALSE), {<<"size", "M">>}, 2)}

\* it.quantity ?? 1
Qty(it) == IF "quantity" \in DOMAIN it THEN it.quantity ELSE 1

\* prev.findIndex((p) => p.id === id), 0 for -1.
IndexOf(items, id) ==
    IF \E k \in 1..Len(items) : items[k].id = id
    THEN CHOOSE k \in 1..Len(items) :
            items[k].id = id /\ \A j \in 1..(k - 1) : items[j].id # id
    ELSE 0

\* { ...item, quantity: item.quantity ?? 1 }
NewLine(item) ==
    [id |-> item.id, name |-> item.name, price_cents |-> item.price_cents,
     image |-> item.image, meta |-> item.meta, quantity |-> Qty(item)]

\* The updater of addItem, lines 85-98.
AddTo(prev, item) ==
    LET idx == IndexOf(prev, item.id)
    IN  IF idx > 0
        THEN [prev EXCEPT ![idx] =
                [@ EXCEPT !.quantity = Qty(prev[idx]) + Qty(item),
                          !.meta = MergeMeta(prev[idx].meta, item.meta)]]
        ELSE Append(prev, NewLine(item))

\* lines 109-117.
RECURSIVE count(_)
count(items) ==
    IF items = <<>> THEN 0 ELSE Qty(Head(items)) + count(Tail(items))

RECURSIVE totalCents(_)
totalCents(items) ==
    IF items = <<>> THEN 0
    ELSE Head(items).price_cents * Qty(Head(items)) + totalCents(Tail(items))

NoCartOp == [op |-> "none"]

\* The success views of the repository: the polling views SuccessInner
\* (unnamed/part_005, app/checkout/success/page.tsx 1-284) and SuccessClient
\* (success-client.tsx), and the static SuccessPage of
\* app/checkout/success/page.tsx 286-313, which calls clear() in an effect.
SuccessViews == {"SuccessInner", "SuccessClient", "SuccessPage"}

\* lines 59-66: what readFromStorage returns; getItem or JSON.parse throwing
\* is caught and gives [].  (For "notArray" JSON.parse returns a value that
\* is no array, see MountEffects.)
readFromStorage ==
    IF storageFault \in {"getItemThrows", "parseThrows"} THEN <<>> ELSE storage

\* The persist effect, lines 78-82: setItem(JSON.stringify(items)) replaces
\* whatever the key held; where localStorage itself cannot be accessed,
\* setItem throws as getItem does, and the catch swallows it.
Persist(items) ==
    IF storageFault = "getItemThrows"
    THEN UNCHANGED <<storage, storageFault>>
    ELSE storage' = items /\ storageFault' = "none"

\* A cart operation sets `items` to new; the persist effect (lines 78-82)
\* writes it to localStorage.
CartSet(new, op) ==
    /\ cartPc = "ready" /\ cartOps < MaxCartOps
    /\ cartItems' = new
    /\ Persist(new)
    /\ cartOp' = op
    /\ cartOps' = cartOps + 1
    /\ UNCHANGED <<cartPc, landed, hydrated>>
    /\ UNCHANGED <<orders, order_items, nextOrderId, inv>>
    /\ UNCHANGED <<successVars, listVars, salesVars, co, nameVars>>

\* What an addItem leaves in cartOp: the item, whether a line with its id was
\* in the cart, and whether the operation before it was an addItem of the
\* same item.
AddOp(item) ==
    [op |-> "add", item |-> item,
     merged |-> IndexOf(cartItems, item.id) > 0,
     repeat |-> cartOp.op = "add" /\ cartOp.item = item]

\* addItem that leaves the line of an id already in the cart as it is.
addItemKeepExisting(item) ==
    CartSet(IF IndexOf(cartItems, item.id) > 0 THEN cartItems
            ELSE AddTo(cartItems, item),
            AddOp(item))

\* addItem that sets the quantity of an existing line to the requested one.
addItemReplaceQuantity(item) ==
    LET idx == IndexOf(cartItems, item.id)
    IN  CartSet(IF idx > 0
                THEN [cartItems EXCEPT ![idx] =
                        [@ EXCEPT !.quantity = Qty(item),
                                  !.meta = MergeMeta(cartItems[idx].meta, item.meta)]]
                ELSE AddTo(cartItems, item),
                AddOp(item))

\* addItem that always appends a line.
addItemAppend(item) ==
    CartSet(Append(cartItems, NewLine(item)), AddOp(item))

\* addItem that replaces the metadata of an existing line by the new one.
addItemReplaceMeta(item) ==
    LET idx == IndexOf(cartItems, item.id)
    IN  CartSet(IF idx > 0
                THEN [cartItems EXCEPT ![idx] =
                        [@ EXCEPT !.quantity = Qty(cartItems[idx]) + Qty(item),
                                  !.meta = item.meta]]
                ELSE AddTo(cartItems, item),
                AddOp(item))

\* addItem that spreads the new item over an existing line.
addItemSpreadItem(item) ==
    LET idx == IndexOf(cartItems, item.id)
    IN  CartSet(IF idx > 0
                THEN [cartItems EXCEPT ![idx] =
                        [NewLine(item) EXCEPT
                            !.quantity = Qty(cartItems[idx]) + Qty(item),
                            !.meta = MergeMeta(cartItems[idx].meta, item.meta)]]
                ELSE AddTo(cartItems, item),
                AddOp(item))

\* lines 84-99.
addItem(item) ==
    CartSet(AddTo(cartItems, item),
            AddOp(item))

\* removeItem that drops the last line when no line has the id.
removeItemOrLast(id) ==
    CartSet(IF IndexOf(cartItems, id) = 0 /\ cartItems # <<>>
            THEN SubSeq(cartItems, 1, Len(cartItems) - 1)
            ELSE SelectSeq(cartItems, LAMBDA p : p.id # id),
            [op |-> "remove", id |-> id, missed |-> IndexOf(cartItems, id) = 0])

\* lines 101-103.
removeItem(id) ==
    CartSet(SelectSeq(cartItems, LAMBDA p : p.id # id),
            [op |-> "remove", id |-> id, missed |-> IndexOf(cartItems, id) = 0])

\* lines 105-107.
clear == CartSet(<<>>, [op |-> "clear"])

\* The payment provider redirects the browser to success_url: a full page
\* load.  CartProvider renders with items = [] (line 70); which success view
\* is served depends on the deployed version.
Land(view) ==
    /\ cartPc = "ready" /\ landed = "none"
    /\ cartPc' = "mounting"
    /\ landed' = view
    /\ cartItems' = <<>>
    /\ UNCHANGED <<storage, cartOp, cartOps, storageFault, hydrated>>
    /\ UNCHANGED <<orders, order_items, nextOrderId, inv>>
    /\ UNCHANGED <<successVars, listVars, salesVars, co, nameVars>>

\* MountEffects without the try/catch of readFromStorage.
MountEffectsNoCatch(providerFirst) ==
    /\ cartPc = "mounting"
    /\ hydrated' = storageFault
    /\ IF storageFault # "none"
       THEN /\ cartPc' = "crashed"
            /\ UNCHANGED <<cartItems, storage, storageFault, cartOp>>
       ELSE /\ cartPc' = "ready"
            /\ LET cleared == landed = "SuccessPage" /\ providerFirst
                   items == IF cleared THEN <<>> ELSE readFromStorage
               IN  /\ cartItems' = items
                   /\ Persist(items)
                   /\ cartOp' = [op |-> "hydrate"]
    /\ UNCHANGED <<landed, cartOps>>
    /\ UNCHANGED <<orders, order_items, nextOrderId, inv>>
    /\ UNCHANGED <<successVars, listVars, salesVars, co, nameVars>>

\* The effects of the page load run.  CartProvider: hydrate
\* (setItems(readFromStorage()), lines 73-75), then persist (lines 78-82).
\* SuccessPage: clear() (success/page.tsx 296-298).  Effects of one commit
\* run child first, so clear()'s setItems([]) is overwritten by the hydrate;
\* providerFirst: the page was committed after the provider (streamed in), and
\* its clear() comes last.  When the stored text parses to a value that is
\* no array, items is that value and the next render throws at
\* items.reduce (lines 109-117): the page is gone.
MountEffects(providerFirst) ==
    /\ cartPc = "mounting"
    /\ hydrated' = storageFault
    /\ IF storageFault = "notArray"
       THEN /\ cartPc' = "crashed"
            /\ UNCHANGED <<cartItems, storage, storageFault, cartOp>>
       ELSE /\ cartPc' = "ready"
            /\ LET cleared == landed = "SuccessPage" /\ providerFirst
                   items == IF cleared THEN <<>> ELSE readFromStorage
               IN  /\ cartItems' = items
                   /\ Persist(items)
                   /\ cartOp' = [op |-> "hydrate"]
    /\ UNCHANGED <<landed, cartOps>>
    /\ UNCHANGED <<orders, order_items, nextOrderId, inv>>
    /\ UNCHANGED <<successVars, listVars, salesVars, co, nameVars>>

\* The buyer loads a page of the shop anew (or reloads the one shown).
Reload ==
    /\ cartPc = "ready"
    /\ cartPc' = "mounting"
    /\ cartItems' = <<>>
    /\ UNCHANGED <<storage, landed, cartOp, cartOps, storageFault, hydrated>>
    /\ UNCHANGED <<orders, order_items, nextOrderId, inv>>
    /\ UNCHANGED <<successVars, listVars, salesVars, co, nameVars>>

\* Something outside CartProvider leaves 'cart:v1' in a state reading meets
\* as fault: access to localStorage is denied, the text is no JSON, or it is
\* JSON of something else than an array.
StorageFaults == {"getItemThrows", "parseThrows", "notArray"}

StorageFails(fault) ==
    /\ cartPc = "ready" /\ storageFault = "none"
    /\ storageFault' = fault
    /\ UNCHANGED <<cartItems, storage, cartPc, landed, cartOp, cartOps, hydrated>>
    /\ UNCHANGED <<orders, order_items, nextOrderId, inv>>
    /\ UNCHANGED <<successVars, listVars, salesVars, co, nameVars>>

\* --------------------------------------------------------------- splitName
\* stripe-webhook/index.ts 19-25.  A string is a sequence of characters;
\* NoName stands for null (and for a missing name).
Chars == {"a", "b", " ", "\t"}
NoName == <<NULL>>
Names ==
    UNION {[1..n -> Chars] : n \in 0..MaxNameLen} \cup {NoName}

\* \s
IsSpace(c) == c \in {" ", "\t"}

\* String.prototype.trim
RECURSIVE trimStart(_)
trimStart(s) ==
    IF s # <<>> /\ IsSpace(Head(s)) THEN trimStart(Tail(s)) ELSE s

RECURSIVE trimEnd(_)
trimEnd(s) ==
    IF s # <<>> /\ IsSpace(s[Len(s)]) THEN trimEnd(SubSeq(s, 1, Len(s) - 1)) ELSE s

trim(s) == trimEnd(trimStart(s))

\* The longest prefix of s without whitespace.
RECURSIVE Token(_)
Token(s) ==
    IF s = <<>> \/ IsSpace(Head(s)) THEN <<>> ELSE <<Head(s)>> \o Token(Tail(s))

\* s.split(/\s+/) for a string without leading or trailing whitespace.
RECURSIVE split(_)
split(s) ==
    IF s = <<>> THEN <<>>
    ELSE LET tok == Token(s)
         IN  <<tok>> \o split(trimStart(SubSeq(s, Len(tok) + 1, Len(s))))

\* parts.join(" ")
RECURSIVE join(_)
join(parts) ==
    IF parts = <<>> THEN <<>>
    ELSE IF Len(parts) = 1 THEN parts[1]
    ELSE parts[1] \o <<" ">> \o join(Tail(parts))

\* splitName that takes the last token as the last name.
splitNameLastToken(full) ==
    LET s == trim(IF full = NoName THEN <<>> ELSE full)
        parts == split(s)
    IN  IF s = <<>> THEN [first |-> NoName, last |-> NoName]
        ELSE IF Len(parts) = 1 THEN [first |-> parts[1], last |-> NoName]
        ELSE [first |-> parts[1], last |-> parts[Len(parts)]]

\* lines 19-25.
splitName(full) ==
    LET s == trim(IF full = NoName THEN <<>> ELSE full)
        parts == split(s)
    IN  IF s = <<>> THEN [first |-> NoName, last |-> NoName]
        ELSE IF Len(parts) = 1 THEN [first |-> parts[1], last |-> NoName]
        ELSE [first |-> parts[1], last |-> join(Tail(parts))]

\* line 62: the handler splits the name of the session's shipping or
\* customer details (one call is followed here).
SplitName(full) ==
    /\ fullName = NoName
    /\ fullName' = full
    /\ splitResult' = splitName(full)
    /\ UNCHANGED <<orders, order_items, nextOrderId, inv>>
    /\ UNCHANGED <<successVars, listVars, salesVars, co, cartVars>>

\* ------------------------------------------------------------ specification
Init ==
    /\ orders = {}
    /\ order_items = <<>>
    /\ nextOrderId = 1
    /\ inv = [h \in Deliveries |-> IdleInv]
    /\ success = InitialSuccess
    /\ sid = NoSid
    /\ runs = [r \in Runs |-> IdleRun]
    /\ nRuns = 0
    /\ alive = TRUE
    /\ lastWriter = 0
    /\ page = "none"
    /\ ordersPage = InitialOrdersPage
    /\ loadSeq = 0
    /\ loads = [l \in Loads |-> IdleLoad]
    /\ authUser = NULL
    /\ uiWriter = 0
    /\ salesMounted = "no"
    /\ salesPage = InitialSalesPage
    /\ salesSeq = 0
    /\ sales = [l \in Loads |-> IdleSale]
    /\ salesWriter = 0
    /\ co = IdleCheckout
    /\ cartItems = <<>>
    /\ storage = <<>>
    /\ cartPc = "ready"
    /\ landed = "none"
    /\ cartOp = NoCartOp
    /\ cartOps = 0
    /\ storageFault = "none"
    /\ hydrated = "never"
    /\ fullName = NoName
    /\ splitResult = [first |-> NoName, last |-> NoName]

\* The webhook under any deliveries, authentic or not.
Next ==
    \/ \E h \in Deliveries, header \in Headers, type \in EventTypes, s \in Sessions :
          Receive(h, header, type, s)
    \/ \E h \in Deliveries, ok \in BOOLEAN : ListLineItems(h, ok)
    \/ \E h \in Deliveries, dbOk \in BOOLEAN : InsertOrder(h, dbOk)
    \/ \E h \in Deliveries, dbOk \in BOOLEAN : InsertItem(h, dbOk)

Spec == Init /\ [][Next]_vars

\* The success view next to one delivery of an authentic payment-completed
\* event.  The view is pointed at one of two sessions (or at none); the
\* delivery is for one of the two.
ViewedSessions == {1, 2}

ReaderNext ==
    \/ \E s \in ViewedSessions :
          Receive(1, STRIPE_WEBHOOK_SECRET, "checkout.session.completed", s)
    \/ \E ok \in BOOLEAN : ListLineItems(1, ok)
    \/ \E dbOk \in BOOLEAN : InsertOrder(1, dbOk)
    \/ \E dbOk \in BOOLEAN : InsertItem(1, dbOk)
    \/ \E newSid \in ViewedSessions \cup {NoSid} : EffectRun(newSid)
    \/ Unmount
    \/ \E r \in Runs, ok \in BOOLEAN : OrderRead(r, ok)
    \/ \E r \in Runs, ok \in BOOLEAN : ItemsRead(r, ok)
    \/ \E r \in Runs : DelayElapsed(r)

SpecReader == Init /\ [][ReaderNext]_vars

\* The buyer order list next to one delivery of an authentic
\* payment-completed event.
OrdersNext ==
    \/ \E s \in Sessions :
          Receive(1, STRIPE_WEBHOOK_SECRET, "checkout.session.completed", s)
    \/ \E ok \in BOOLEAN : ListLineItems(1, ok)
    \/ \E dbOk \in BOOLEAN : InsertOrder(1, dbOk)
    \/ \E dbOk \in BOOLEAN : InsertItem(1, dbOk)
    \/ \E p \in {"orders", "signup"} : MountOrdersPage(p)
    \/ Refetch
    \/ \E u \in Users \cup {NULL} : AuthStateChange(u)
    \/ \E l \in Loads : RestoreResolved(l)
    \/ \E l \in Loads, ok \in BOOLEAN : SessionResolved(l, ok)
    \/ \E l \in Loads, ok \in BOOLEAN : OrdersResolved(l, ok)

SpecOrders == Init /\ [][OrdersNext]_vars

\* The seller sales view next to one delivery of an authentic
\* payment-completed event.
SalesNext ==
    \/ \E s \in ViewedSessions :
          Receive(1, STRIPE_WEBHOOK_SECRET, "checkout.session.completed", s)
    \/ \E ok \in BOOLEAN : ListLineItems(1, ok)
    \/ \E dbOk \in BOOLEAN : InsertOrder(1, dbOk)
    \/ \E dbOk \in BOOLEAN : InsertItem(1, dbOk)
    \/ MountSalesPage
    \/ UnmountSalesPage
    \/ SalesVisible
    \/ \E u \in Users \cup {NULL} : SalesAuthStateChange(u)
    \/ \E l \in Loads, res \in SaleOutcomes : SaleSessionResolved(l, res)
    \/ \E l \in Loads, res \in QueryOutcomes : SaleJoinResolved(l, res)
    \/ \E l \in Loads, res \in SaleOutcomes : SalePlainResolved(l, res)
    \/ \E l \in Loads, res \in LookupOutcomes : SaleOrdersResolved(l, res)

SpecSales == Init /\ [][SalesNext]_vars

\* The seller sales view next to the deliveries of the payment-completed
\* events of several sessions, each handled without a failure.
SalesOrdersNext ==
    \/ \E h \in Deliveries, s \in ViewedSessions :
          Receive(h, STRIPE_WEBHOOK_SECRET, "checkout.session.completed", s)
    \/ \E h \in Deliveries : ListLineItems(h, TRUE)
    \/ \E h \in Deliveries : InsertOrder(h, TRUE)
    \/ \E h \in Deliveries : InsertItem(h, TRUE)
    \/ MountSalesPage
    \/ \E u \in Users : SalesAuthStateChange(u)
    \/ \E l \in Loads : SaleSessionResolved(l, "ok")
    \/ \E l \in Loads, res \in {"rows", "error"} : SaleJoinResolved(l, res)
    \/ \E l \in Loads : SalePlainResolved(l, "ok")
    \/ \E l \in Loads, res \in LookupOutcomes \ {"timeout"} : SaleOrdersResolved(l, res)

SpecSalesOrders == Init /\ [][SalesOrdersNext]_vars


\* A checkout request next to one delivery of an authentic payment-completed
\* event of a session created earlier.
CheckoutNext ==
    \/ \E s \in ViewedSessions :
          Receive(1, STRIPE_WEBHOOK_SECRET, "checkout.session.completed", s)
    \/ \E ok \in BOOLEAN : ListLineItems(1, ok)
    \/ \E dbOk \in BOOLEAN : InsertOrder(1, dbOk)
    \/ \E dbOk \in BOOLEAN : InsertItem(1, dbOk)
    \/ \E route \in Routes, site \in SiteUrls, vercel \in VercelUrls,
          origin \in OriginHeaders, host \in HostHeaders, body \in Bodies,
          user \in {"u1"} :
          Post(route, site, vercel, origin, host, body, user)
    \/ EdgeServe
    \/ \E ok \in BOOLEAN : LookupResolved(ok)
    \/ \E res \in CreateOutcomes : SessionCreated(res)
    \/ HandleResponse
    \/ ReturnFromProvider

SpecCheckout == Init /\ [][CheckoutNext]_vars

\* The cart under any operations of the buyer, and the return from the
\* payment provider.
CartNext ==
    \/ \E item \in AddRequests : addItem(item)
    \/ \E id \in ItemIds \cup {"p9"} : removeItem(id)
    \/ clear
    \/ \E view \in SuccessViews : Land(view)
    \/ \E providerFirst \in BOOLEAN : MountEffects(providerFirst)
    \/ Reload
    \/ \E fault \in StorageFaults : StorageFails(fault)

SpecCart == Init /\ [][CartNext]_vars

\* React runs the effects of a committed render; the buyer is not obliged to
\* do anything.
SpecCartLive ==
    Init /\ [][CartNext]_vars
         /\ WF_vars(\E providerFirst \in BOOLEAN : MountEffects(providerFirst))

\* splitName on every name of up to MaxNameLen characters.
SplitNext == \E full \in Names : SplitName(full)

SpecSplitName == Init /\ [][SplitNext]_vars

\* ---------------------------------------------------------------- helpers
Authentic(h) == inv[h].pc # "idle" /\ constructEventAsync(inv[h].header)
Completed(h) == Authentic(h) /\ inv[h].type = "checkout.session.completed"
Done(h) == inv[h].pc = "done"

\* Rows of order_items that were made from line i of the session of order o.
RowsOfLine(o, i) ==
    {k \in 1..Len(order_items) :
        order_items[k] = OrderItemRow(o.id, LineItem(o.stripe_session_id, i))}

NoDuplicateItems ==
    \A o \in orders : \A i \in 1..NumLines(o.stripe_session_id) :
        Cardinality(RowsOfLine(o, i)) <= 1

AtMostOneOrder == \A s \in Sessions : Cardinality(OrdersOf(s)) <= 1

TypeOK ==
    /\ nextOrderId \in 1..(MaxDeliveries + 1)
    /\ \A o \in orders : o.stripe_session_id \in Sessions
    /\ \A h \in Deliveries : inv[h].status \in {0, 200, 400}

\* ------------------------------------------------------------------ claims

\* C1: the same authentic payment-completed event delivered twice in sequence
\* leaves exactly one order and one set of order items: an authentic completed
\* delivery that finds the order of its session on arrival inserts no order and
\* no order item and is answered 200; no session has two orders, no line item
\* two rows; and once a delivery of a session ran through without a failing
\* step, the session has exactly one order.
C1_RedeliveryInsertsNothing ==
    /\ AtMostOneOrder
    /\ NoDuplicateItems
    /\ \A h \in Deliveries :
          /\ Completed(h) /\ inv[h].sawOrder =>
                /\ inv[h].nOrders = 0 /\ inv[h].nItems = 0 /\ inv[h].order_id = 0
                /\ Done(h) => inv[h].status = 200
          /\ Completed(h) /\ Done(h) /\ ~inv[h].failed =>
                Cardinality(OrdersOf(inv[h].session)) = 1

\* Two deliveries of one session, the second arriving after the first (which
\* inserted the order and all its items) had finished.
C1_Witness ==
    \E h1, h2 \in Deliveries :
        /\ h1 < h2 /\ inv[h1].session = inv[h2].session
        /\ Completed(h1) /\ Completed(h2) /\ Done(h1) /\ Done(h2)
        /\ inv[h1].nOrders = 1 /\ inv[h1].nItems = NumLines(inv[h1].session)
        /\ inv[h2].alone /\ inv[h2].sawOrder /\ inv[h2].status = 200
        /\ Len(order_items) = NumLines(inv[h1].session)

\* C2: under any interleaving of invocations for one session there is at most
\* one order of the session, at most one invocation gets to the order_items
\* loop, and no line item has two rows.
C2_RaceLeavesOneOrder ==
    /\ AtMostOneOrder
    /\ NoDuplicateItems
    /\ \A s \in Sessions :
          Cardinality({h \in Deliveries : inv[h].session = s /\ inv[h].order_id # 0}) <= 1

\* An invocation that arrived before the order existed lost the race against
\* another one, which is still in its order_items loop.
C2_Witness ==
    \E h1, h2 \in Deliveries :
        /\ h1 # h2 /\ inv[h1].session = inv[h2].session
        /\ Completed(h1) /\ Completed(h2)
        /\ inv[h1].pc = "insertItems" /\ ~inv[h1].sawOrder
        /\ Done(h2) /\ ~inv[h2].sawOrder /\ ~inv[h2].failed /\ inv[h2].nOrders = 0
        /\ inv[h2].status = 200

\* C3: every session whose authentic payment-completed event was delivered
\* (and answered) has exactly one order, also when a step of the delivery failed.
C3_AcknowledgedImpliesOrder ==
    \A h \in Deliveries :
        Completed(h) /\ Done(h) => Cardinality(OrdersOf(inv[h].session)) = 1

\* C4: a request whose signature verifies is answered 200 whatever happens
\* while it is processed; only a request whose signature is missing or does
\* not verify gets another status.
C4_VerifiedAlwaysAcknowledged ==
    \A h \in Deliveries :
        Done(h) => (inv[h].status = 200 <=> Authentic(h))

\* A verified request one of whose processing steps failed, answered 200.
C4_Witness ==
    \E h \in Deliveries : Authentic(h) /\ Done(h) /\ inv[h].failed /\ inv[h].status = 200

\* C5: a request without a signature header, or whose signature does not
\* verify, is answered 400 at once; it fetches no line items and writes no
\* order and no order item.
C5_BadSignatureRejected ==
    \A h \in Deliveries :
        inv[h].pc # "idle" /\ ~Authentic(h) =>
            /\ Done(h) /\ inv[h].status = 400
            /\ ~inv[h].fetched
            /\ inv[h].nOrders = 0 /\ inv[h].nItems = 0 /\ inv[h].order_id = 0

\* A forged payment-completed event was rejected and the session has no order.
C5_Witness ==
    \E h \in Deliveries :
        /\ Done(h) /\ inv[h].header = "whsec_forged"
        /\ inv[h].type = "checkout.session.completed"
        /\ inv[h].status = 400 /\ OrdersOf(inv[h].session) = {}

\* C6: a failed order_items insert leaves the order in place and the loop goes
\* on: every line item already passed has its row unless its own insert failed,
\* the invocation ends only after the last line item, and it is answered 200.
C6_ItemFailureSkipped ==
    \A h \in Deliveries :
        inv[h].nOrders = 1 =>
            /\ \E o \in orders : o.id = inv[h].order_id /\ o.stripe_session_id = inv[h].session
            /\ \A i \in 1..NumLines(inv[h].session) :
                  i < inv[h].i /\ i \notin inv[h].itemFailed =>
                      \E k \in 1..Len(order_items) :
                          order_items[k] = OrderItemRow(inv[h].order_id, LineItem(inv[h].session, i))
            /\ Done(h) => inv[h].i = NumLines(inv[h].session) + 1 /\ inv[h].status = 200

\* The insert of the first line item failed and the second one has its row.
C6_Witness ==
    \E h \in Deliveries :
        /\ Done(h) /\ inv[h].nOrders = 1 /\ 1 \in inv[h].itemFailed
        /\ 2 \notin inv[h].itemFailed /\ NumLines(inv[h].session) >= 2
        /\ inv[h].nItems >= 1 /\ inv[h].status = 200

\* Run r ends in this step (a run without sid ends in the step that starts
\* it, from pc "idle").
Ends(r) == runs[r].pc # "done" /\ runs'[r].pc = "done"

\* The order of run r's session is in the store while the run still has an
\* attempt to make or to complete: an orders or order_items query in flight,
\* or a delay after which another of the `attempts` attempts is due.
PresentBeforeLastAttempt(r) ==
    /\ OrdersOf(runs[r].sid) # {}
    /\ \/ runs[r].pc \in {"orderRead", "itemsRead"}
       \/ runs[r].pc = "delay" /\ runs[r].i + 1 < attempts

\* Run r ends confirmed: the step is the resolution of the order_items query
\* issued after the orders query had returned orderData.
ConfirmedView(r) ==
    /\ runs'[r].outcome = "confirmed"
    /\ runs[r].pc = "itemsRead"
    /\ success'.order = runs[r].orderData
    /\ success'.order \in OrdersOf(runs[r].sid)
    /\ success'.items = ItemsOfOrder(success'.order.id)
    /\ success'.statusMsg = StatusConfirmed
    /\ success'.error = NULL /\ ~success'.loading

\* Run r ends "still processing" at the end of the delay of its last attempt.
ProcessingView(r) ==
    /\ runs'[r].outcome = "processing"
    /\ runs[r].pc = "delay" /\ runs[r].i + 1 = attempts
    /\ success'.order = NoOrder /\ success'.items = <<>>
    /\ success'.statusMsg = StatusProcessing
    /\ success'.error = NULL /\ ~success'.loading

C9_OnlyCurrentRunWrites == nRuns > 0 => lastWriter = nRuns

C12_FallbackAttributesSeller ==
    \A o \in orders : \A i \in 1..NumLines(o.stripe_session_id) :
        LET li == LineItem(o.stripe_session_id, i)
        IN  ~Truthy(li.seller_id) /\ Catalog(li.slug) # NULL =>
                \A k \in RowsOfLine(o, i) : order_items[k].seller_id = Catalog(li.slug)

\* C11: in the seller sales view a load superseded by a newer load writes
\* neither items nor error nor the loading flag, on its success path, its error
\* path and its finally step: the last setter call is always one of the newest
\* load.
C11_SupersededSaleWritesNothing == salesSeq > 0 => salesWriter = salesSeq

\* C13: when the joined query of the newest load returns no row because the
\* row-level policy hides the orders of items the seller has, the load runs
\* the fallback (order_items, then orders by id, stitched) and the seller's
\* items are shown: the view is not the empty no-sales view and no error is set.
C13_HiddenJoinFallsBack ==
    \A l \in Loads :
        /\ l = salesSeq /\ sales[l].pc = "done" /\ sales[l].join = "hidden"
        /\ sales[l].outcome \notin {"superseded", "cancelled"}
        => /\ sales[l].outcome = "stitched"
           /\ Len(salesPage.items) > 0 /\ ~NoSalesView /\ salesPage.error = NULL

\* C14: a checkout request whose items are missing, not an array or empty
\* ends with an error status for the caller, and neither a products lookup nor
\* the creation of a provider session was made for it.
C14_EmptyCartRejected ==
    co.pc # "idle" /\ ~(co.body.isArray /\ Len(co.body.items) > 0) =>
        /\ co.pc \in {"edge", "done", "settled"}
        /\ co.lk = <<>> /\ co.enhanced = <<>>
        /\ ~co.createCalled /\ ~co.created /\ co.line_items = <<>>
        /\ co.pc \in {"done", "settled"} => co.status \in {400, 500}
        /\ co.redirect = NoUrl

\* An empty cart went through a route handler that does not check items and
\* was refused by the edge function.
C14_Witness ==
    /\ co.pc = "done" /\ co.route = "origin" /\ co.body.isArray
    /\ co.body.items = <<>> /\ co.edgeStatus = 400 /\ co.status = 500

\* A line of the request has a price that is positive.
PositivePrice(item) == "price_cents" \in DOMAIN item /\ item.price_cents > 0

\* C15: a checkout request with a line whose unit price is zero, negative or
\* missing ends with an error status, and neither a products lookup nor the
\* creation of a provider session was made for it.
C15_NonPositivePriceRejected ==
    co.pc # "idle" /\ (\E k \in 1..Len(co.body.items) : ~PositivePrice(co.body.items[k])) =>
        /\ co.lk = <<>>
        /\ ~co.createCalled /\ ~co.created
        /\ co.pc = "done" => co.status \in {400, 500}

\* C16: orders and order_items change only in a step of a webhook invocation
\* that is at its orders insert or in its order_items loop, and that step
\* leaves every client-side state alone; every order row carries the id an
\* invocation got back from its insert.
C16_OnlyHandlerWritesStore ==
    [][(orders' # orders \/ order_items' # order_items) =>
          /\ \E h \in Deliveries :
                /\ inv[h].pc \in {"insertOrder", "insertItems"}
                /\ inv'[h] # inv[h]
                /\ orders' # orders => inv'[h].nOrders = 1 /\ inv[h].nOrders = 0
                /\ \A o \in orders' \ orders : o.id = inv'[h].order_id
          /\ UNCHANGED clientVars]_vars

\* A checkout request created its provider session, and the store holds an
\* order with items, inserted by the delivery.
C16_Witness ==
    /\ co.pc = "done" /\ co.created /\ co.status = 200
    /\ \E o \in orders : inv[1].nOrders = 1 /\ inv[1].order_id = o.id
    /\ Len(order_items) >= 1 /\ inv[1].pc = "done"

\* C17: an order row, once in the store, stays as it is and is never deleted;
\* order_items only grows at its end; a new order row has an id no row had.
C17_RowsImmutable ==
    [][/\ orders \subseteq orders'
       /\ \A o \in orders' \ orders : \A q \in orders : q.id # o.id
       /\ Len(order_items') >= Len(order_items)
       /\ SubSeq(order_items', 1, Len(order_items)) = order_items]_vars

\* A session with two line items was delivered twice; the second delivery
\* met the order and its items.
C17_Witness ==
    \E h1, h2 \in Deliveries :
        /\ h1 # h2 /\ inv[h1].session = inv[h2].session
        /\ NumLines(inv[h1].session) >= 2
        /\ Done(h1) /\ Done(h2) /\ Completed(h2)
        /\ inv[h1].nOrders = 1 /\ inv[h1].nItems = 2
        /\ inv[h2].sawOrder /\ inv[h2].nOrders = 0
        /\ Cardinality(orders) = 1 /\ Len(order_items) = 2

\* C18: the seller of each line is the seller_id on the line if there is one;
\* otherwise the seller_id the products lookup by the line's slug returned;
\* otherwise null (no slug, no product, no seller, or the lookup failed).  The
\* metadata sent to the provider carries it, and a request with items always
\* gets to the creation of the session.
C18_SellerResolutionOrder ==
    /\ \A k \in 1..Len(co.enhanced) :
          LET item == co.body.items[k]
              e == co.enhanced[k].seller_id
          IN  /\ item.seller_id \notin {NULL, ""} => e = item.seller_id /\ co.lk[k] = "skipped"
              /\ item.seller_id \in {NULL, ""} /\ item.slug \notin {NULL, ""} =>
                    /\ co.lk[k] \in {"returned", "failed"}
                    /\ co.lk[k] = "returned" => e = Catalog(item.slug)
                    /\ co.lk[k] = "failed" => e = NULL
              /\ item.seller_id = NULL /\ item.slug \in {NULL, ""} =>
                    e = NULL /\ co.lk[k] = "skipped"
    /\ \A k \in 1..Len(co.line_items) :
          co.line_items[k].seller_id =
              IF co.enhanced[k].seller_id = NULL THEN "" ELSE co.enhanced[k].seller_id
    /\ co.pc = "done" /\ co.body.isArray /\ Len(co.body.items) > 0 /\ co.edgeStatus # 0 =>
          co.createCalled /\ Len(co.line_items) = Len(co.body.items)

\* The first line carried its seller, the lookup of the second failed, and
\* the session was created.
C18_Witness ==
    /\ co.pc = "done" /\ co.created /\ co.lk = <<"skipped", "failed">>
    /\ co.enhanced[1].seller_id = "u2" /\ co.enhanced[2].seller_id = NULL
    /\ Catalog(co.body.items[2].slug) = "u2"

RECURSIVE CartTotal(_)
CartTotal(cart) ==
    IF cart = <<>> THEN 0
    ELSE Head(cart).price_cents * Head(cart).quantity + CartTotal(Tail(cart))

\* C19: the order the success view got for a session has the amount of the
\* cart the session was created from and one item per cart line, with the
\* line's quantity and unit price.
C19_OrderMatchesCart ==
    success.order # NoOrder =>
        LET cart == Cart(success.order.stripe_session_id)
        IN  /\ success.order.amount_cents = CartTotal(cart)
            /\ Len(success.items) = Len(cart)
            /\ \A k \in 1..Len(cart) :
                  k <= Len(success.items) =>
                      /\ success.items[k].qty = cart[k].quantity
                      /\ success.items[k].price_cents = cart[k].price_cents

\* C20: the base URL of the redirects comes from the first available of: the
\* configured public URL, the origin header, the host header, the platform's
\* URL, the localhost default.
C20_SinglePriorityOrder ==
    co.base # NoUrl =>
        co.base.host =
            IF co.site # NoUrl THEN co.site.host
            ELSE IF co.origin # NoUrl THEN co.origin.host
            ELSE IF co.host # NULL THEN co.host
            ELSE IF co.vercel # NULL THEN co.vercel
            ELSE "localhost:3000"

\* A step of addItem: the cart operation counted by this step is "add".
AddStep == cartOps' = cartOps + 1 /\ cartOp'.op = "add"

\* C21: addItem of an item whose id is already in the cart leaves the number
\* of lines unchanged and exactly one line with that id, whose quantity is the
\* existing quantity plus the requested one.
C21_MergeSumsQuantity ==
    [][(AddStep /\ IndexOf(cartItems, cartOp'.item.id) > 0) =>
        LET id == cartOp'.item.id
            idx == IndexOf(cartItems, id)
        IN  /\ Len(cartItems') = Len(cartItems)
            /\ Cardinality({k \in 1..Len(cartItems') : cartItems'[k].id = id}) = 1
            /\ cartItems'[idx].id = id
            /\ cartItems'[idx].quantity = Qty(cartItems[idx]) + Qty(cartOp'.item)]_vars

\* 2 then 3 gives 5, on one line.
C21_Witness ==
    /\ cartOp.op = "add" /\ cartOp.merged
    /\ Qty(cartOp.item) = 3
    /\ Len(cartItems) = 1
    /\ cartItems[1].quantity = 5

\* C22: every line of the cart has a quantity of at least 1.
C22_QuantityAtLeastOne ==
    \A k \in 1..Len(cartItems) : Qty(cartItems[k]) >= 1

\* C23: no two lines of the cart have the same item id.
C23_NoDuplicateIds ==
    \A j, k \in 1..Len(cartItems) :
        j # k => cartItems[j].id # cartItems[k].id

\* An addItem of an id in the cart has run, and the cart has two lines.
C23_Witness ==
    /\ cartOp.op = "add" /\ cartOp.merged
    /\ Len(cartItems) = 2

\* The addItem of this step repeats the addItem before it: same item, and
\* no other cart operation in between.
RepeatedAddStep == AddStep /\ cartOp.op = "add" /\ cartOp'.item = cartOp.item

\* C24 as stated: submitting the same addItem twice leaves the cart as
\* submitting it once does.
C24_RepeatedAddIdempotent ==
    [][RepeatedAddStep => cartItems' = cartItems]_vars

\* C24: a repeated addItem adds no line and changes nothing but the
\* quantity of the item's line, which grows by the requested quantity again.
C24_RepeatedAddAddsQuantity ==
    [][RepeatedAddStep =>
        LET idx == IndexOf(cartItems, cartOp'.item.id)
        IN  /\ idx > 0
            /\ Len(cartItems') = Len(cartItems)
            /\ \A k \in 1..Len(cartItems) :
                  cartItems'[k] =
                      IF k = idx
                      THEN [cartItems[k] EXCEPT
                              !.quantity = cartItems[k].quantity + Qty(cartOp'.item)]
                      ELSE cartItems[k]]_vars

\* addItem with quantity 2 ran twice in a row: the line has 4.
C24_Witness ==
    /\ cartOp.op = "add" /\ cartOp.repeat
    /\ Qty(cartOp.item) = 2
    /\ \E k \in 1..Len(cartItems) :
          cartItems[k].id = cartOp.item.id /\ cartItems[k].quantity = 4

\* C25: removeItem with an id no line of the cart has leaves the lines, the
\* count and the total as they were.
C25_RemoveMissingIsNoOp ==
    [][(cartOps' = cartOps + 1 /\ cartOp'.op = "remove"
            /\ IndexOf(cartItems, cartOp'.id) = 0) =>
        /\ cartItems' = cartItems
        /\ count(cartItems') = count(cartItems)
        /\ totalCents(cartItems') = totalCents(cartItems)]_vars

\* removeItem of an id that is not in a cart of two lines has run.
C25_Witness ==
    /\ cartOp.op = "remove" /\ cartOp.missed
    /\ Len(cartItems) = 2

\* C26: once the buyer has come back to the checkout success view, the cart
\* is eventually empty.
C26_CartClearedAfterSuccess ==
    [](landed # "none" => <>(cartPc = "ready" /\ cartItems = <<>>))

\* C27: one request of the initiator calls the function at most once and
\* the function calls sessions.create at most once, whether it succeeds or
\* throws.
C27_AtMostOneCreate ==
    co.nInvoke <= 1 /\ co.nCreate <= 1

\* sessions.create threw, the initiator has shown its alert, and there was
\* one call.
C27_Witness ==
    /\ co.pc = "settled" /\ co.thrown # "none"
    /\ co.alert # NULL
    /\ co.nCreate = 1

\* C28: when sessions.create throws with a message, the answer to the
\* initiator carries that message and no URL, and the step writes no order
\* and no order item.
C28_ProviderMessagePassedThrough ==
    [][(co.pc = "create" /\ co'.pc = "done" /\ co'.thrown \notin {"none", NULL}) =>
        /\ co'.payload.error = co'.thrown
        /\ co'.payload.url = NoUrl
        /\ orders' = orders /\ order_items' = order_items]_vars

\* The handler that inserted order o has left the order_items loop.
Materialized(o) ==
    \A h \in Deliveries :
        inv[h].pc = "insertItems" => inv[h].order_id # o.id

RECURSIVE SumItems(_)
SumItems(items) ==
    IF items = <<>> THEN 0
    ELSE Head(items).qty * Head(items).price_cents + SumItems(Tail(items))

\* C29: the quantities times unit prices of the items of a materialized
\* order add up to the amount of the order (the one shipping option is free
\* and there is no discount).
C29_ItemsSumToAmount ==
    \A o \in orders :
        Materialized(o) => SumItems(ItemsOfOrder(o.id)) = o.amount_cents

\* The line items of the session of invocation h that its loop has passed
\* and whose insert did not fail, in order.
InsertedLines(h) ==
    SelectSeq([k \in 1..(inv[h].i - 1) |-> k], LAMBDA k : k \notin inv[h].itemFailed)

Unreadable == {"getItemThrows", "parseThrows"}

\* C31: a hydration that cannot read or parse the stored cart leaves the
\* cart empty and the page running; addItem, removeItem and clear then do to
\* the empty cart what they do to any empty cart.
C31_UnreadableStorageResets ==
    [][/\ (cartPc = "mounting" /\ cartPc' # "mounting" /\ storageFault \in Unreadable) =>
            cartItems' = <<>> /\ cartPc' = "ready"
       /\ (hydrated \in Unreadable /\ cartItems = <<>> /\ cartOps' = cartOps + 1) =>
            cartItems' = IF cartOp'.op = "add" THEN <<NewLine(cartOp'.item)>> ELSE <<>>]_vars

\* The stored cart could not be read at the last page load, and an addItem
\* after it has put one line into the cart.
C31_Witness ==
    /\ hydrated \in Unreadable /\ cartPc = "ready"
    /\ cartOps = 1 /\ cartOp.op = "add"
    /\ cartItems = <<NewLine(cartOp.item)>>

\* The name given to splitName without the whitespace around it, and what
\* follows its first token and the whitespace after that.
Trimmed == trim(IF fullName = NoName THEN <<>> ELSE fullName)
Remainder == trimStart(SubSeq(Trimmed, Len(Token(Trimmed)) + 1, Len(Trimmed)))

\* C32 as stated: the first name is the first token, the last name is the
\* remainder after the first whitespace boundary: NULL for a name of one
\* token, both NULL for an empty or missing name.
C32_SplitAtFirstWhitespace ==
    IF Trimmed = <<>>
    THEN splitResult = [first |-> NoName, last |-> NoName]
    ELSE /\ splitResult.first = Token(Trimmed)
         /\ splitResult.last = IF Remainder = <<>> THEN NoName ELSE Remainder

\* C32: the first name is the first token; the last name is NULL for a name
\* of one token and else the remaining tokens in order, joined by one space
\* each; a name that is missing, empty or whitespace only gives NULL for both.
C32_SplitNameTokens ==
    IF Trimmed = <<>>
    THEN splitResult = [first |-> NoName, last |-> NoName]
    ELSE /\ splitResult.first = Token(Trimmed)
         /\ IF Remainder = <<>> THEN splitResult.last = NoName
            ELSE LET last == splitResult.last
                 IN  /\ last # NoName
                     /\ split(last) = split(Remainder)
                     /\ \A k \in 1..Len(last) :
                           IsSpace(last[k]) =>
                               /\ last[k] = " "
                               /\ 1 < k /\ k < Len(last)
                               /\ ~IsSpace(last[k + 1])

\* "a b<space><tab>a" was split into "a" and "b a".
C32_Witness ==
    /\ fullName = <<"a", " ", "b", " ", "\t", "a">>
    /\ splitResult = [first |-> <<"a">>, last |-> <<"b", " ", "a">>]

\* C34: when the buyer comes back from a completed payment, the success view
\* reads the id of the session that was created for the checkout.
C34_SuccessViewReadsSessionId ==
    co.pc = "returned" => co.viewSid = NewSession

\* C35: every order has the user id of its session's metadata (NULL when the
\* session was created without one), and an orders query that completes for
\* a user returns exactly the orders with that user id.
C35_OrderListedForItsUser ==
    [][/\ \A o \in orders' :
             o.user_id = StripeSession(o.stripe_session_id).user_id
       /\ \A l \in Loads :
             (loads[l].pc = "ordersQuery" /\ loads'[l].pc = "done"
                  /\ loads'[l].outcome = "ok") =>
                 \A o \in orders :
                     (o.user_id = loads[l].user) <=>
                         (\E k \in 1..Len(loads'[l].data) : loads'[l].data[k].id = o.id)]_vars

\* The list of "u1" shows the order of the session "u1" started, and a list
\* loaded for "u2" after it was there is empty.
C35_Witness ==
    \E l, m \in Loads :
        /\ loads[l].outcome = "ok" /\ loads[l].user = "u1" /\ Len(loads[l].data) = 1
        /\ loads[m].outcome = "ok" /\ loads[m].user = "u2" /\ loads[m].data = <<>>
        /\ l < m

\* ------------------------------------------------------------------ C36
\* part_001 263-282, 293-296 and 374-381: an item is rendered in the grouped
\* list when its order is attached, and in the item-only list when that
\* list is rendered at all.
InGroupedList(items, k) == items[k].orders # NoOrder
InFallbackList(items, k) == NoOrdersVisible(items)
SalesLoadCompleted ==
    /\ salesMounted = "yes" /\ ~salesPage.loading /\ salesPage.error = NULL
    /\ salesWriter \in Loads /\ sales[salesWriter].outcome \in {"joined", "stitched"}

\* C36: after a completed load of the seller sales view every loaded order
\* item is rendered in exactly one of the two lists, the grouped list or the
\* item-only fallback list; none is dropped when only some of the parent
\* orders are visible.
C36_EveryItemRenderedOnce ==
    SalesLoadCompleted =>
        \A k \in 1..Len(salesPage.items) :
            InGroupedList(salesPage.items, k) # InFallbackList(salesPage.items, k)

\* ------------------------------------------------------------------ C33
\* The keys of a metadata object.
Keys(meta) == {kv[1] : kv \in meta}

\* C33: when addItem merges into an existing line, the metadata of the line
\* is the shallow merge of the old and the new metadata: every key of the
\* new item is there with the new value, every old key absent from the new
\* item keeps its value, and there is nothing else.
C33_MetaShallowMerge ==
    [][(AddStep /\ IndexOf(cartItems, cartOp'.item.id) > 0) =>
        LET idx == IndexOf(cartItems, cartOp'.item.id)
            old == cartItems[idx].meta
            new == cartOp'.item.meta
            got == cartItems'[idx].meta
        IN  /\ new \subseteq got
            /\ \A kv \in old : kv[1] \notin Keys(new) => kv \in got
            /\ got \subseteq old \cup new
            /\ Cardinality(Keys(got)) = Cardinality(got)]_vars

\* {size: L, gift: yes} merged with {size: M} is {size: M, gift: yes}.
C33_Witness ==
    /\ cartOp.op = "add" /\ cartOp.merged
    /\ cartOp.item.meta = {<<"size", "M">>}
    /\ \E k \in 1..Len(cartItems) :
          /\ cartItems[k].id = cartOp.item.id
          /\ cartItems[k].meta = {<<"size", "M">>, <<"gift", "yes">>}

\* ------------------------------------------------------------------ C39
\* C39: when addItem merges into an existing line, the line keeps its id,
\* unit price, name and image, whatever the new item says; only its quantity
\* and metadata may change, and every other line is unchanged.
C39_MergeKeepsLineFields ==
    [][(AddStep /\ IndexOf(cartItems, cartOp'.item.id) > 0) =>
        LET idx == IndexOf(cartItems, cartOp'.item.id)
        IN  /\ Len(cartItems') = Len(cartItems)
            /\ cartItems'[idx].id = cartItems[idx].id
            /\ cartItems'[idx].price_cents = cartItems[idx].price_cents
            /\ cartItems'[idx].name = cartItems[idx].name
            /\ cartItems'[idx].image = cartItems[idx].image
            /\ \A k \in 1..Len(cartItems) : k # idx => cartItems'[k] = cartItems[k]]_vars

\* A line "Mug" with a line after it, merged with the offer "Mug XL" at
\* another price and without image.
C39_Witness ==
    /\ cartOp.op = "add" /\ cartOp.merged
    /\ Len(cartItems) = 2
    /\ cartItems[1].id = cartOp.item.id
    /\ cartOp.item.name = "Mug XL" /\ cartItems[1].name = "Mug"
    /\ cartOp.item.price_cents # cartItems[1].price_cents
    /\ cartOp.item.image = NULL /\ cartItems[1].image = "mug.png"

\* ------------------------------------------------------------------ C37
\* C37: a read error on any attempt of the reader ends the polling at once:
\* the run is over, with the error shown when the view is still mounted; a
\* run that is over issues nothing more; and the delay before the next
\* attempt is entered only from an orders read that succeeded and found no
\* order, the next attempt only from that delay.
C37_ReadErrorEndsPolling ==
    [][\A r \in Runs :
        /\ (runs[r].pc \in {"orderRead", "itemsRead"} /\ runs'[r].readFailed) =>
              /\ runs'[r].pc = "done"
              /\ runs'[r].outcome = IF runs[r].mounted THEN "error" ELSE "cancelled"
              /\ (runs[r].mounted /\ alive) =>
                    /\ success'.error # NULL
                    /\ ~success'.loading
                    /\ success'.order = success.order
        /\ runs[r].pc = "done" => runs'[r].pc = "done"
        /\ (runs'[r].pc = "delay" /\ runs[r].pc # "delay") =>
              /\ runs[r].pc = "orderRead"
              /\ ~runs'[r].readFailed
              /\ OrdersOf(runs[r].sid) = {}
        /\ (runs'[r].pc = "orderRead" /\ runs[r].pc \notin {"orderRead", "idle"}) =>
              /\ runs[r].pc = "delay"
              /\ ~runs[r].readFailed]_vars

\* A read failed on a later attempt, after a read that found no order: the
\* view shows the error under the message of the repeated attempt.
C37_Witness ==
    \E r \in Runs :
        /\ runs[r].pc = "done" /\ runs[r].outcome = "error" /\ runs[r].readFailed
        /\ lastWriter = r
        /\ success.error = "read error" /\ ~success.loading
        /\ success.statusMsg = StatusStill

\* ------------------------------------------------------------------ C38
\* C38: a verified event of a type other than checkout.session.completed is
\* answered 200 at once and leaves the store as it was: the line items are
\* not fetched, no order and no order item is written, and the invocation
\* does nothing after its answer.
C38_OtherEventsAcknowledgedOnly ==
    [][\A h \in Deliveries :
        /\ (/\ inv[h].pc = "idle" /\ inv'[h].pc # "idle"
            /\ constructEventAsync(inv'[h].header)
            /\ inv'[h].type # "checkout.session.completed") =>
              /\ inv'[h].pc = "done" /\ inv'[h].status = 200
              /\ ~inv'[h].fetched
              /\ inv'[h].nOrders = 0 /\ inv'[h].nItems = 0
              /\ orders' = orders /\ order_items' = order_items
              /\ nextOrderId' = nextOrderId
        /\ (/\ inv[h].pc = "done"
            /\ inv[h].type # "checkout.session.completed") =>
              inv'[h] = inv[h]]_vars

\* A payment_intent.created event acknowledged next to the order written by
\* an earlier delivery.
C38_Witness ==
    \E h \in Deliveries :
        /\ inv[h].pc = "done" /\ inv[h].status = 200
        /\ inv[h].header = STRIPE_WEBHOOK_SECRET
        /\ inv[h].type = "payment_intent.created"
        /\ ~inv[h].fetched
        /\ orders # {} /\ order_items # <<>>
====
